---- MODULE Spec2Model ----
(***************************************************************************)
(* Model of the cpp_to_rust binding generator:                             *)
(*   - CGenerator (src/src/cpp_ffi_generator.rs): the inheritance          *)
(*     resolver, the eligibility filter, the overload disambiguator and    *)
(*     the orchestrator generate_all;                                      *)
(*   - CppBuildConfig (cpp_to_rust_common/src/cpp_build_config.rs): the    *)
(*     conditional build configuration and its evaluation.                 *)
(* Strings that the code concatenates or sorts are sequences of tokens;    *)
(* the tokens form a prefix-free alphabet, so concatenation and the        *)
(* byte-wise order of Rust's String carry over to the token sequences.     *)
(***************************************************************************)
EXTENDS Integers, Sequences, FiniteSets, TLC

VARIABLES
  cpp_data,           \* CGenerator.cpp_data: the parser's output
  template_classes,   \* CGenerator.template_classes
  abstract_classes,   \* CGenerator.abstract_classes
  pc,                 \* position of the run: new, headers, emit, done, ...
  pending,            \* keys of cpp_data_by_headers not yet iterated
  c_headers,          \* generate_all's c_headers
  include_name_list,  \* generate_all's include_name_list
  generated,          \* what was handed to CppCodeGenerator, in order
  log,                \* the records written to the global log
  found,              \* per visited header: the caption strategy per group
  resolved,           \* what a call of get_all_methods returned
  items,              \* CppBuildConfig.items
  eval_out,           \* what the last CppBuildConfig::eval returned
  cpp_type,           \* the C++ type handed to the conversion synthesizer
  complete_type       \* what the conversion synthesizer returned for it

gen_vars == <<cpp_data, template_classes, abstract_classes, pc, pending,
              c_headers, include_name_list, generated, log, found, resolved>>

cfg_vars == <<items, eval_out>>

conv_vars == <<cpp_type, complete_type>>

vars == <<cpp_data, template_classes, abstract_classes, pc, pending,
          c_headers, include_name_list, generated, log, found, resolved,
          items, eval_out, cpp_type, complete_type>>

(***************************************************************************)
(* Option<T> is a sequence of length 0 (None) or 1 (Some).                 *)
(***************************************************************************)
None == <<>>

Some(x) == <<x>>

IsSome(o) == Len(o) = 1

Unwrap(o) == o[1]

Range(s) == {s[i] : i \in 1..Len(s)}

SeqUpTo(S, n) == UNION {[1..k -> S] : k \in 0..n}

(***************************************************************************)
(* CppBuildConfig                                                          *)
(***************************************************************************)

\* Bound: the number of items added to one CppBuildConfig.
MaxItems == 2

Targets == {"linux", "windows"}

ConditionTrue == [kind |-> "True", os |-> ""]

ConditionOs(os) == [kind |-> "OS", os |-> os]

Conditions == {ConditionTrue, ConditionOs("linux")}

\* target::Condition::eval
ConditionEval(condition, target) ==
  CASE condition.kind = "True" -> TRUE
    [] condition.kind = "OS" -> condition.os = target

CppLibraryType == {"Shared", "Static"}

\* CppBuildConfigData::new
CppBuildConfigDataDefault ==
  [linked_libs |-> <<>>, linked_frameworks |-> <<>>,
   compiler_flags |-> <<>>, library_type |-> None]

\* The data values an item is added with: built by add_linked_lib,
\* add_linked_framework, add_compiler_flag and set_library_type.
ConfigDataUniverse ==
  {[linked_libs |-> l, linked_frameworks |-> f, compiler_flags |-> c,
    library_type |-> t] :
     l \in {<<>>, <<"a">>, <<"b">>}, f \in {<<>>, <<"F">>},
     c \in {<<>>, <<"-O">>},
     t \in {None} \cup {Some(x) : x \in CppLibraryType}}

add_from_NoConflictCheck(self, other) ==
  [ok |-> TRUE,
   data |-> [linked_libs |-> self.linked_libs \o other.linked_libs,
             linked_frameworks |->
               self.linked_frameworks \o other.linked_frameworks,
             compiler_flags |-> self.compiler_flags \o other.compiler_flags,
             library_type |-> IF IsSome(self.library_type)
                                THEN self.library_type
                                ELSE other.library_type]]

add_from_Dedup(self, other) ==
  LET fresh(xs, ys) == SelectSeq(ys, LAMBDA y : y \notin Range(xs))
      appended ==
        [linked_libs |-> self.linked_libs
                           \o fresh(self.linked_libs, other.linked_libs),
         linked_frameworks |->
           self.linked_frameworks
             \o fresh(self.linked_frameworks, other.linked_frameworks),
         compiler_flags |->
           self.compiler_flags
             \o fresh(self.compiler_flags, other.compiler_flags),
         library_type |-> self.library_type]
  IN  IF IsSome(self.library_type)
        THEN IF IsSome(other.library_type)
                  /\ other.library_type # self.library_type
               THEN [ok |-> FALSE, data |-> appended]
               ELSE [ok |-> TRUE, data |-> appended]
        ELSE [ok |-> TRUE,
              data |-> [appended EXCEPT !.library_type = other.library_type]]

\* CppBuildConfigData::add_from: the three lists are appended first, then
\* the library type is merged; on a conflict the call returns Err.
add_from(self, other) ==
  LET appended ==
        [linked_libs |-> self.linked_libs \o other.linked_libs,
         linked_frameworks |->
           self.linked_frameworks \o other.linked_frameworks,
         compiler_flags |-> self.compiler_flags \o other.compiler_flags,
         library_type |-> self.library_type]
  IN  IF IsSome(self.library_type)
        THEN IF IsSome(other.library_type)
                  /\ other.library_type # self.library_type
               THEN [ok |-> FALSE, data |-> appended]
               ELSE [ok |-> TRUE, data |-> appended]
        ELSE [ok |-> TRUE,
              data |-> [appended EXCEPT !.library_type = other.library_type]]

\* The loop of CppBuildConfig::eval from item i on; `?` returns the first Err.
RECURSIVE eval_from(_, _, _, _)
eval_from(its, target, i, data) ==
  IF i > Len(its)
    THEN [ok |-> TRUE, data |-> data]
    ELSE IF ConditionEval(its[i].condition, target)
           THEN LET r == add_from(data, its[i].data)
                IN  IF r.ok
                      THEN eval_from(its, target, i + 1, r.data)
                      ELSE [ok |-> FALSE, data |-> CppBuildConfigDataDefault]
           ELSE eval_from(its, target, i + 1, data)

\* CppBuildConfig::eval
eval(its, target) == eval_from(its, target, 1, CppBuildConfigDataDefault)

NoEval == [called |-> FALSE, target |-> "", ok |-> TRUE,
           data |-> CppBuildConfigDataDefault]

\* CppBuildConfig::new
InitBuildConfig ==
  /\ items = <<>>
  /\ eval_out = NoEval

\* CppBuildConfig::add.  eval_out describes the items it was computed from,
\* so it is dropped when the items change.
Add(condition, data) ==
  /\ Len(items) < MaxItems
  /\ items' = Append(items, [condition |-> condition, data |-> data])
  /\ eval_out' = NoEval
  /\ UNCHANGED <<gen_vars, conv_vars>>

\* A call of CppBuildConfig::eval(target); the config itself is not changed.
Eval(target) ==
  LET r == eval(items, target)
  IN  /\ eval_out' = [called |-> TRUE, target |-> target, ok |-> r.ok,
                      data |-> r.data]
      /\ UNCHANGED items
      /\ UNCHANGED <<gen_vars, conv_vars>>

NextBuildConfig ==
  \/ \E condition \in Conditions, data \in ConfigDataUniverse :
       Add(condition, data)
  \/ \E target \in Targets : Eval(target)

(***************************************************************************)
(* Strings                                                                 *)
(***************************************************************************)

\* The rank of a token in the byte-wise order of the strings it stands for
\* ('.' < ':' < 'A'..'Z' < '_' < 'a'..'z').
TokRank(t) ==
  CASE t = ".h" -> 0
    [] t = "::" -> 1
    [] t = "A" -> 2
    [] t = "B" -> 3
    [] t = "C" -> 4
    [] t = "D" -> 5
    [] t = "E" -> 6
    [] t = "G" -> 7
    [] t = "P" -> 8
    [] t = "QFlags" -> 9
    [] t = "QVector" -> 10
    [] t = "T" -> 11
    [] t = "X" -> 12
    [] t = "_" -> 13
    [] t = "a" -> 14
    [] t = "b" -> 15
    [] t = "const" -> 16
    [] t = "constructor" -> 17
    [] t = "destructor" -> 18
    [] t = "double" -> 19
    [] t = "f" -> 20
    [] t = "g" -> 21
    [] t = "h" -> 22
    [] t = "int" -> 23
    [] t = "operator" -> 24

\* String::cmp(a, b) = Less
RECURSIVE StrLess(_, _)
StrLess(a, b) ==
  IF a = <<>>
    THEN b # <<>>
    ELSE IF b = <<>>
           THEN FALSE
           ELSE IF Head(a) = Head(b)
                  THEN StrLess(Tail(a), Tail(b))
                  ELSE TokRank(Head(a)) < TokRank(Head(b))

\* str::starts_with
StartsWith(s, prefix) ==
  /\ Len(prefix) <= Len(s)
  /\ SubSeq(s, 1, Len(prefix)) = prefix

\* str::ends_with
EndsWith(s, suffix) ==
  /\ Len(suffix) <= Len(s)
  /\ SubSeq(s, Len(s) - Len(suffix) + 1, Len(s)) = suffix

\* The stable insertion of the keyed element x into a sequence sorted by
\* key: after every element whose key is not greater.
RECURSIVE InsertKeyed(_, _)
InsertKeyed(x, s) ==
  IF s = <<>>
    THEN <<x>>
    ELSE IF StrLess(x.key, Head(s).key)
           THEN <<x>> \o s
           ELSE <<Head(s)>> \o InsertKeyed(x, Tail(s))

RECURSIVE SortKeyed(_)
SortKeyed(s) ==
  IF s = <<>>
    THEN <<>>
    ELSE InsertKeyed(s[Len(s)], SortKeyed(SubSeq(s, 1, Len(s) - 1)))

\* Vec<String>::sort
SortStrings(s) ==
  LET keyed == [i \in 1..Len(s) |-> [key |-> s[i], val |-> s[i]]]
      sorted == SortKeyed(keyed)
  IN  [i \in 1..Len(s) |-> sorted[i].val]

\* Vec::dedup: consecutive equal elements collapse into the first.
RECURSIVE Dedup(_)
Dedup(s) ==
  IF Len(s) <= 1
    THEN s
    ELSE IF s[1] = s[2]
           THEN Dedup(Tail(s))
           ELSE <<s[1]>> \o Dedup(Tail(s))

(***************************************************************************)
(* CppType, CompleteType and the conversion synthesizer                    *)
(***************************************************************************)

\* CppTypeIndirection
CppTypeIndirections == {"None", "Ptr", "Ref", "PtrPtr", "PtrRef", "RValueRef"}

\* CppType
CppType(base, indirection, is_const, is_const2) ==
  [base |-> base, indirection |-> indirection, is_const |-> is_const,
   is_const2 |-> is_const2]

\* CppTypeBase::Void, without indirection.
VoidType == CppType([tag |-> "Void"], "None", FALSE, FALSE)

\* CppTypeBase::BuiltInNumeric
BuiltInNumeric(name) == [tag |-> "BuiltInNumeric", name |-> name]

\* CppTypeBase::Class
ClassTypeBase(name, template_arguments) ==
  [tag |-> "Class", name |-> name, template_arguments |-> template_arguments]

\* The C++ types handed to the synthesizer: every indirection and constness
\* of void, int, an enum, a class, the flags wrapper QFlags<E>, a template
\* parameter and a function pointer void (*)(int).
CppTypeBases ==
  {[tag |-> "Void"],
   BuiltInNumeric("int"),
   [tag |-> "Enum", name |-> <<"E">>],
   ClassTypeBase(<<"A">>, None),
   ClassTypeBase(<<"QFlags">>,
                 Some(<<CppType([tag |-> "Enum", name |-> <<"E">>], "None",
                                FALSE, FALSE)>>)),
   [tag |-> "TemplateParameter", nested_level |-> 0, index |-> 0],
   [tag |-> "FunctionPointer", return_type |-> VoidType,
    arguments |-> <<CppType(BuiltInNumeric("int"), "None", FALSE, FALSE)>>,
    allows_variadic_arguments |-> FALSE]}

CppTypeUniverse ==
  {CppType(base, indirection, is_const, is_const2) :
     base \in CppTypeBases, indirection \in CppTypeIndirections,
     is_const \in BOOLEAN, is_const2 \in BOOLEAN}

\* CompleteType, its C++ side: cpp_type, cpp_ffi_type,
\* cpp_to_ffi_conversion.
CompleteType(type, ffi_type, conversion) ==
  [ok |-> TRUE, cpp_type |-> type, cpp_ffi_type |-> ffi_type,
   cpp_to_ffi_conversion |-> conversion]

ConversionError == [ok |-> FALSE]

to_cpp_ffi_type_ReferenceUnmarked(type) ==
  IF type.base.tag = "TemplateParameter" \/ type.indirection = "RValueRef"
    THEN ConversionError
    ELSE IF type.indirection \in {"Ref", "PtrRef"}
           THEN CompleteType(type,
                             [type EXCEPT !.indirection =
                                IF @ = "Ref" THEN "Ptr" ELSE "PtrPtr"],
                             "NoChange")
           ELSE CompleteType(type, type, "NoChange")

\* The conversion synthesizer on one C++ type.  A template parameter and an
\* rvalue reference cannot be classified.  A function pointer passes
\* unchanged.  A QFlags value becomes an unsigned integer.  A reference
\* becomes a pointer, a class value a pointer to the class.  Every other
\* type (values of non-class types, pointers) is unchanged.
to_cpp_ffi_type(type) ==
  IF type.base.tag = "TemplateParameter" \/ type.indirection = "RValueRef"
    THEN ConversionError
    ELSE IF type.base.tag = "FunctionPointer"
      THEN CompleteType(type, type, "NoChange")
    ELSE IF type.base.tag = "Class" /\ type.base.name = <<"QFlags">>
              /\ type.indirection = "None"
      THEN CompleteType(type,
                        CppType(BuiltInNumeric("unsigned int"), "None",
                                FALSE, FALSE),
                        "QFlagsToUInt")
    ELSE IF type.indirection = "Ref"
      THEN CompleteType(type, [type EXCEPT !.indirection = "Ptr"],
                        "ReferenceToPointer")
    ELSE IF type.indirection = "PtrRef"
      THEN CompleteType(type, [type EXCEPT !.indirection = "PtrPtr"],
                        "ReferenceToPointer")
    ELSE IF type.base.tag = "Class" /\ type.indirection = "None"
      THEN CompleteType(type, [type EXCEPT !.indirection = "Ptr"],
                        "ValueToPointer")
    ELSE CompleteType(type, type, "NoChange")

\* No type is being converted.
InitNoConversion ==
  /\ cpp_type = VoidType
  /\ complete_type = None

\* One call of the synthesizer on the type.
Convert ==
  /\ complete_type = None
  /\ complete_type' = Some(to_cpp_ffi_type(cpp_type))
  /\ UNCHANGED cpp_type
  /\ UNCHANGED <<gen_vars, cfg_vars>>

NextConversion == Convert

(***************************************************************************)
(* CppData, CppMethod                                                      *)
(***************************************************************************)

\* CppMethod::class_name: the name of the method's class, if any.
class_name(m) ==
  IF IsSome(m.class_membership)
    THEN Some(Unwrap(m.class_membership).class_type.name)
    ELSE None

\* CppMethod::argument_types_equal: the same number of arguments and the
\* same type at every position.
argument_types_equal(m, other) ==
  /\ Len(m.arguments) = Len(other.arguments)
  /\ \A i \in 1..Len(m.arguments) :
       m.arguments[i].argument_type = other.arguments[i].argument_type

\* self.cpp_data.types.iter().find(|t| &t.name == class_name): the index of
\* the first type of that name, 0 when there is none.
FindType(data, name) ==
  LET hits == {i \in 1..Len(data.types) : data.types[i].name = name}
  IN  IF hits = {} THEN 0 ELSE CHOOSE i \in hits : \A j \in hits : i <= j

\* CppData::is_template_class: the type is a class declared with template
\* arguments.
is_template_class(data, name) ==
  LET i == FindType(data, name)
  IN  /\ i # 0
      /\ data.types[i].kind = "Class"
      /\ IsSome(data.types[i].template_arguments)

(***************************************************************************)
(* Inheritance resolver                                                    *)
(***************************************************************************)

\* Bound: the depth of nested resolver calls the stack holds.
MaxDepth == 5

NotShadowed_Never(own_methods, method) == TRUE

\* own_methods.iter().find(|m| m.name == method.name &&
\*                             m.argument_types_equal(&method)).is_none()
NotShadowed(own_methods, method) ==
  \A i \in 1..Len(own_methods) :
    ~(own_methods[i].name = method.name
      /\ argument_types_equal(own_methods[i], method))

get_pure_virtual_methods_OwnOnly(data, name, depth) ==
  [status |-> "ok",
   methods |->
     SelectSeq(data.methods,
               LAMBDA m : class_name(m) = Some(name)
                          /\ Unwrap(m.class_membership).is_pure_virtual),
   warnings |-> <<>>]

NoTypeInfo_Panic(name) ==
  [status |-> "panic", methods |-> <<>>, warnings |-> <<>>]

\* The else branch of `if let Some(type_info) = ...find(..)`: a warning
\* "no type info for <name>" and nothing inherited.
NoTypeInfo(name) ==
  [status |-> "ok", methods |-> <<>>, warnings |-> <<name>>]

\* CGenerator::get_pure_virtual_methods and the loop over the bases of the
\* class (from base i on, with the inherited methods and the warnings
\* collected so far).
\* status: ok, panic ("not a class"), overflow (the recursion did not end
\* within MaxDepth nested calls).  warnings: the names logged as having no
\* type info, in the order of the log.
RECURSIVE get_pure_virtual_methods(_, _, _)
RECURSIVE PureVirtualOfBases(_, _, _, _, _, _)
PureVirtualOfBases(data, bases, i, own_methods, inherited, depth) ==
  IF i > Len(bases)
    THEN inherited
    ELSE IF bases[i].base.tag = "Class"
           THEN LET r == get_pure_virtual_methods(data, bases[i].base.name,
                                                  depth + 1)
                IN  IF r.status # "ok"
                      THEN [r EXCEPT
                              !.warnings = inherited.warnings \o @]
                      ELSE PureVirtualOfBases(
                             data, bases, i + 1, own_methods,
                             [status |-> "ok",
                              methods |->
                                inherited.methods \o SelectSeq(r.methods,
                                  LAMBDA m : NotShadowed(own_methods, m)),
                              warnings |-> inherited.warnings \o r.warnings],
                             depth)
           ELSE PureVirtualOfBases(data, bases, i + 1, own_methods,
                                   inherited, depth)

get_pure_virtual_methods(data, name, depth) ==
  IF depth > MaxDepth
    THEN [status |-> "overflow", methods |-> <<>>, warnings |-> <<>>]
    ELSE
      LET own_methods ==
            SelectSeq(data.methods, LAMBDA m : class_name(m) = Some(name))
          own_pure_virtual_methods ==
            SelectSeq(own_methods,
                      LAMBDA m : Unwrap(m.class_membership).is_pure_virtual)
          t == FindType(data, name)
          inherited ==
            IF t # 0
              THEN IF data.types[t].kind = "Class"
                     THEN PureVirtualOfBases(
                            data, data.types[t].bases, 1, own_methods,
                            [status |-> "ok", methods |-> <<>>,
                             warnings |-> <<>>],
                            depth)
                     ELSE [status |-> "panic", methods |-> <<>>,
                           warnings |-> <<>>]
              ELSE NoTypeInfo(name)
      IN  IF inherited.status # "ok"
            THEN inherited
            ELSE [inherited EXCEPT
                    !.methods = @ \o own_pure_virtual_methods]

\* CGenerator::get_all_methods and its loop over the bases.
RECURSIVE get_all_methods(_, _, _)
RECURSIVE AllMethodsOfBases(_, _, _, _, _, _)
AllMethodsOfBases(data, bases, i, own_methods, inherited, depth) ==
  IF i > Len(bases)
    THEN inherited
    ELSE IF bases[i].base.tag = "Class"
           THEN LET r == get_all_methods(data, bases[i].base.name, depth + 1)
                IN  IF r.status # "ok"
                      THEN [r EXCEPT
                              !.warnings = inherited.warnings \o @]
                      ELSE AllMethodsOfBases(
                             data, bases, i + 1, own_methods,
                             [status |-> "ok",
                              methods |->
                                inherited.methods \o SelectSeq(r.methods,
                                  LAMBDA m : NotShadowed(own_methods, m)),
                              warnings |-> inherited.warnings \o r.warnings],
                             depth)
           ELSE AllMethodsOfBases(data, bases, i + 1, own_methods,
                                  inherited, depth)

\* get_all_methods with a guard that ends the recursion, with nothing
\* inherited, where the stack would run out.
get_all_methods_DepthGuard(data, name, depth) ==
  LET own_methods ==
        SelectSeq(data.methods, LAMBDA m : class_name(m) = Some(name))
      t == FindType(data, name)
      inherited ==
        IF depth > MaxDepth
          THEN [status |-> "ok", methods |-> <<>>, warnings |-> <<>>]
          ELSE IF t # 0
                 THEN IF data.types[t].kind = "Class"
                        THEN AllMethodsOfBases(
                               data, data.types[t].bases, 1, own_methods,
                               [status |-> "ok", methods |-> <<>>,
                                warnings |-> <<>>],
                               depth)
                        ELSE [status |-> "panic", methods |-> <<>>,
                              warnings |-> <<>>]
                 ELSE NoTypeInfo(name)
  IN  IF inherited.status # "ok"
        THEN inherited
        ELSE [inherited EXCEPT !.methods = @ \o own_methods]

get_all_methods(data, name, depth) ==
  IF depth > MaxDepth
    THEN [status |-> "overflow", methods |-> <<>>, warnings |-> <<>>]
    ELSE
      LET own_methods ==
            SelectSeq(data.methods, LAMBDA m : class_name(m) = Some(name))
          t == FindType(data, name)
          inherited ==
            IF t # 0
              THEN IF data.types[t].kind = "Class"
                     THEN AllMethodsOfBases(
                            data, data.types[t].bases, 1, own_methods,
                            [status |-> "ok", methods |-> <<>>,
                             warnings |-> <<>>],
                            depth)
                     ELSE [status |-> "panic", methods |-> <<>>,
                           warnings |-> <<>>]
              ELSE NoTypeInfo(name)
      IN  IF inherited.status # "ok"
            THEN inherited
            ELSE [inherited EXCEPT !.methods = @ \o own_methods]

(***************************************************************************)
(* Signature synthesis, base names and captions                            *)
(***************************************************************************)

\* The number of arguments of the longest all-defaulted suffix of the
\* argument list.
RECURSIVE OmissibleArguments(_)
OmissibleArguments(arguments) ==
  IF arguments = <<>> \/ ~arguments[Len(arguments)].has_default_value
    THEN 0
    ELSE 1 + OmissibleArguments(SubSeq(arguments, 1, Len(arguments) - 1))

\* The candidate of m that omits its last n arguments; a trimmed candidate
\* records the arguments of m.
OmitArguments(m, n) ==
  IF n = 0
    THEN m
    ELSE [m EXCEPT
            !.arguments = SubSeq(m.arguments, 1, Len(m.arguments) - n),
            !.arguments_before_omitting = Some(m.arguments)]

to_ffi_signatures_NoOmission(m) ==
  IF \E i \in 1..Len(m.arguments) : m.arguments[i].argument_type = "T"
    THEN [ok |-> FALSE, results |-> <<>>]
    ELSE [ok |-> TRUE, results |-> <<[cpp_method |-> m]>>]

\* CppMethod::to_ffi_signatures: fails when an argument type cannot be
\* classified (a bare template parameter); otherwise the candidate with
\* every argument, then one candidate per omissible suffix of defaulted
\* arguments.
to_ffi_signatures(m) ==
  IF \E i \in 1..Len(m.arguments) : m.arguments[i].argument_type = "T"
    THEN [ok |-> FALSE, results |-> <<>>]
    ELSE [ok |-> TRUE,
          results |-> [k \in 1..(OmissibleArguments(m.arguments) + 1) |->
                         [cpp_method |-> OmitArguments(m, k - 1)]]]

\* CppTypeClassBase::caption: the class name with "::" written as "_",
\* then the template arguments, if any.
ClassCaption(class_type) ==
  LET name == [i \in 1..Len(class_type.name) |->
                 IF class_type.name[i] = "::" THEN "_"
                 ELSE class_type.name[i]]
      args == IF IsSome(class_type.template_arguments)
                THEN Unwrap(class_type.template_arguments)
                ELSE <<>>
  IN  name \o [i \in 1..(2 * Len(args)) |->
                 IF i % 2 = 1 THEN "_" ELSE args[i \div 2]]

\* CppMethodWithFfiSignature::c_base_name: the scope (the class, or the
\* header's base name and "G" for a free function), then the method's name:
\* "constructor", "destructor", "operator_" and the caption of the operator,
\* or the name itself.  It fails when the operator has no caption (a
\* conversion to a template parameter).
c_base_name(sig, include_file_base_name) ==
  LET m == sig.cpp_method
      scope_prefix ==
        IF IsSome(m.class_membership)
          THEN ClassCaption(Unwrap(m.class_membership).class_type) \o <<"_">>
          ELSE include_file_base_name \o <<"_", "G", "_">>
      method_name ==
        IF IsSome(m.class_membership)
             /\ Unwrap(m.class_membership).kind = "Constructor"
          THEN <<"constructor">>
          ELSE IF IsSome(m.class_membership)
                    /\ Unwrap(m.class_membership).kind = "Destructor"
                 THEN <<"destructor">>
                 ELSE IF IsSome(m.operator)
                        THEN <<"operator", "_", Unwrap(m.operator)>>
                        ELSE m.name
  IN  IF IsSome(m.operator) /\ Unwrap(m.operator) = "T"
           /\ ~(IsSome(m.class_membership)
                /\ Unwrap(m.class_membership).kind
                     \in {"Constructor", "Destructor"})
        THEN [ok |-> FALSE, name |-> <<>>]
        ELSE [ok |-> TRUE, name |-> scope_prefix \o method_name]

\* MethodCaptionStrategy::all: the fixed order in which strategies are tried.
MethodCaptionStrategyAll == <<"ArgumentsOnly", "ConstOnly", "ConstAndArguments">>

\* The captions of the argument types, joined by "_".
RECURSIVE ArgumentsCaption(_)
ArgumentsCaption(arguments) ==
  IF arguments = <<>>
    THEN <<>>
    ELSE IF Len(arguments) = 1
           THEN <<arguments[1].argument_type>>
           ELSE <<arguments[1].argument_type, "_">>
                  \o ArgumentsCaption(Tail(arguments))

\* CppMethodWithFfiSignature::caption
caption(sig, strategy) ==
  LET m == sig.cpp_method
      is_const == IsSome(m.class_membership)
                    /\ Unwrap(m.class_membership).is_const
      const_part == IF is_const THEN <<"const">> ELSE <<>>
      args_part == ArgumentsCaption(m.arguments)
  IN  CASE strategy = "ArgumentsOnly" -> args_part
        [] strategy = "ConstOnly" -> const_part
        [] strategy = "ConstAndArguments" ->
             IF const_part = <<>>
               THEN args_part
               ELSE IF args_part = <<>>
                      THEN const_part
                      ELSE const_part \o <<"_">> \o args_part

\* CppAndFfiMethod::new
CppAndFfiMethod(sig, c_name) ==
  [cpp_method |-> sig.cpp_method, c_name |-> c_name]

(***************************************************************************)
(* process_methods                                                         *)
(***************************************************************************)

LogRecord(level, what, m) == [level |-> level, what |-> what, method |-> m]

EligibilityFilter_KeepPrivate(self, m) ==
  LET member == IsSome(m.class_membership)
      membership == Unwrap(m.class_membership)
  IN  IF member /\ membership.kind = "Constructor"
           /\ \E i \in 1..Len(self.abstract_classes) :
                self.abstract_classes[i] = membership.class_type.name
        THEN [keep |-> FALSE,
              log |-> <<LogRecord("debug", "abstract constructor", m)>>]
      ELSE IF member /\ membership.visibility = "Protected"
        THEN [keep |-> FALSE, log |-> <<LogRecord("debug", "protected", m)>>]
      ELSE IF member /\ membership.is_signal
        THEN [keep |-> FALSE, log |-> <<LogRecord("warning", "signal", m)>>]
      ELSE IF IsSome(m.template_arguments)
        THEN [keep |-> FALSE,
              log |-> <<LogRecord("warning", "template method", m)>>]
      ELSE IF member
              /\ \E i \in 1..Len(self.template_classes) :
                   \/ self.template_classes[i] = membership.class_type.name
                   \/ StartsWith(membership.class_type.name,
                                 self.template_classes[i] \o <<"::">>)
        THEN [keep |-> FALSE,
              log |-> <<LogRecord("warning", "method of template class", m)>>]
      ELSE [keep |-> TRUE, log |-> <<>>]

EligibilityFilter_TemplateFirst(self, m) ==
  LET member == IsSome(m.class_membership)
      membership == Unwrap(m.class_membership)
  IN  IF IsSome(m.template_arguments)
        THEN [keep |-> FALSE,
              log |-> <<LogRecord("warning", "template method", m)>>]
      ELSE IF member /\ membership.kind = "Constructor"
                /\ \E i \in 1..Len(self.abstract_classes) :
                     self.abstract_classes[i] = membership.class_type.name
        THEN [keep |-> FALSE,
              log |-> <<LogRecord("debug", "abstract constructor", m)>>]
      ELSE IF member /\ membership.visibility = "Private"
        THEN [keep |-> FALSE, log |-> <<>>]
      ELSE IF member /\ membership.visibility = "Protected"
        THEN [keep |-> FALSE, log |-> <<LogRecord("debug", "protected", m)>>]
      ELSE IF member /\ membership.is_signal
        THEN [keep |-> FALSE, log |-> <<LogRecord("warning", "signal", m)>>]
      ELSE IF member
              /\ \E i \in 1..Len(self.template_classes) :
                   \/ self.template_classes[i] = membership.class_type.name
                   \/ StartsWith(membership.class_type.name,
                                 self.template_classes[i] \o <<"::">>)
        THEN [keep |-> FALSE,
              log |-> <<LogRecord("warning", "method of template class", m)>>]
      ELSE [keep |-> TRUE, log |-> <<>>]

\* The eligibility checks at the head of the loop over the header's methods
\* (each `continue` drops the method).
EligibilityFilter(self, m) ==
  LET member == IsSome(m.class_membership)
      membership == Unwrap(m.class_membership)
  IN  IF member /\ membership.kind = "Constructor"
           /\ \E i \in 1..Len(self.abstract_classes) :
                self.abstract_classes[i] = membership.class_type.name
        THEN [keep |-> FALSE,
              log |-> <<LogRecord("debug", "abstract constructor", m)>>]
      ELSE IF member /\ membership.visibility = "Private"
        THEN [keep |-> FALSE, log |-> <<>>]
      ELSE IF member /\ membership.visibility = "Protected"
        THEN [keep |-> FALSE, log |-> <<LogRecord("debug", "protected", m)>>]
      ELSE IF member /\ membership.is_signal
        THEN [keep |-> FALSE, log |-> <<LogRecord("warning", "signal", m)>>]
      ELSE IF IsSome(m.template_arguments)
        THEN [keep |-> FALSE,
              log |-> <<LogRecord("warning", "template method", m)>>]
      ELSE IF member
              /\ \E i \in 1..Len(self.template_classes) :
                   \/ self.template_classes[i] = membership.class_type.name
                   \/ StartsWith(membership.class_type.name,
                                 self.template_classes[i] \o <<"::">>)
        THEN [keep |-> FALSE,
              log |-> <<LogRecord("warning", "method of template class", m)>>]
      ELSE [keep |-> TRUE, log |-> <<>>]

EmptyMap == [k \in {} |-> <<>>]

\* insert_into_hash
insert_into_hash(hash, key, value) ==
  IF key \in DOMAIN hash
    THEN [hash EXCEPT ![key] = Append(@, value)]
    ELSE [k \in DOMAIN hash \cup {key} |->
            IF k = key THEN <<value>> ELSE hash[k]]

InsertResults_FirstOnly(results, j, m, include_file_base_name, acc) ==
  LET b == c_base_name(results[1], include_file_base_name)
  IN  IF b.ok
        THEN [acc EXCEPT !.hash1 = insert_into_hash(@, b.name, results[1])]
        ELSE [acc EXCEPT !.log = Append(@, LogRecord("warning",
                                                    "no base name", m))]

\* The inner loop over the signatures of one method: each is inserted under
\* its base name, or logged when c_base_name fails.
RECURSIVE InsertResults(_, _, _, _, _)
InsertResults(results, j, m, include_file_base_name, acc) ==
  IF j > Len(results)
    THEN acc
    ELSE LET b == c_base_name(results[j], include_file_base_name)
         IN  InsertResults(
               results, j + 1, m, include_file_base_name,
               IF b.ok
                 THEN [acc EXCEPT
                         !.hash1 = insert_into_hash(@, b.name, results[j])]
                 ELSE [acc EXCEPT
                         !.log = Append(@, LogRecord("warning",
                                                     "no base name", m))])

RECURSIVE CollectCandidates_StopAtFailure(_, _, _, _, _)
CollectCandidates_StopAtFailure(self, include_file_base_name, methods, i, acc) ==
  IF i > Len(methods)
    THEN acc
    ELSE
      LET m == methods[i]
          f == EligibilityFilter(self, m)
          s == to_ffi_signatures(m)
      IN  IF f.keep /\ ~s.ok
            THEN acc
            ELSE CollectCandidates_StopAtFailure(
                   self, include_file_base_name, methods, i + 1,
                   IF ~f.keep
                     THEN [acc EXCEPT !.log = @ \o f.log]
                     ELSE InsertResults(s.results, 1, m,
                                        include_file_base_name, acc))

\* The first loop of process_methods from method i on: filter, synthesis,
\* grouping by base name.
RECURSIVE CollectCandidates(_, _, _, _, _)
CollectCandidates(self, include_file_base_name, methods, i, acc) ==
  IF i > Len(methods)
    THEN acc
    ELSE
      LET m == methods[i]
          f == EligibilityFilter(self, m)
          logged == [acc EXCEPT !.log = @ \o f.log]
          s == to_ffi_signatures(m)
      IN  CollectCandidates(
            self, include_file_base_name, methods, i + 1,
            IF ~f.keep
              THEN logged
              ELSE IF ~s.ok
                     THEN [acc EXCEPT
                             !.log = Append(@, LogRecord("warning",
                                                         "no signature", m))]
                     ELSE InsertResults(s.results, 1, m,
                                        include_file_base_name, acc))

\* type_captions.sort(); type_captions.dedup();
\* type_captions.len() == values.len()
CaptionsUnique(values, strategy) ==
  LET type_captions == [i \in 1..Len(values) |-> caption(values[i], strategy)]
  IN  Len(Dedup(SortStrings(type_captions))) = Len(values)

FindStrategy_LastUnique(values, k) ==
  LET unique == {j \in k..Len(MethodCaptionStrategyAll) :
                   CaptionsUnique(values, MethodCaptionStrategyAll[j])}
  IN  IF unique = {}
        THEN None
        ELSE Some(MethodCaptionStrategyAll[
                    CHOOSE j \in unique : \A l \in unique : l <= j])

FindStrategy_FallBackToLast(values, k) ==
  LET unique == {j \in k..Len(MethodCaptionStrategyAll) :
                   CaptionsUnique(values, MethodCaptionStrategyAll[j])}
  IN  IF unique = {}
        THEN Some(MethodCaptionStrategyAll[Len(MethodCaptionStrategyAll)])
        ELSE Some(MethodCaptionStrategyAll[
                    CHOOSE j \in unique : \A l \in unique : j <= l])

\* The loop over MethodCaptionStrategy::all() from strategy k on: the first
\* strategy whose captions are unique, None when there is none.
RECURSIVE FindStrategy(_, _)
FindStrategy(values, k) ==
  IF k > Len(MethodCaptionStrategyAll)
    THEN None
    ELSE IF CaptionsUnique(values, MethodCaptionStrategyAll[k])
           THEN Some(MethodCaptionStrategyAll[k])
           ELSE FindStrategy(values, k + 1)

\* The names of one group under the strategy found for it.
NameGroup(key, values, strategy) ==
  [i \in 1..Len(values) |->
     LET c == caption(values[i], strategy)
     IN  CppAndFfiMethod(values[i],
                         key \o (IF c = <<>> THEN <<>> ELSE <<"_">>) \o c)]

\* A name already given to an earlier entry gets "_" appended.
RECURSIVE PushRenamed(_, _)
PushRenamed(r, entries) ==
  IF entries = <<>>
    THEN r
    ELSE LET e == Head(entries)
             taken == \E i \in 1..Len(r) : r[i].c_name = e.c_name
         IN  PushRenamed(
               Append(r, IF taken
                           THEN [e EXCEPT !.c_name = @ \o <<"_">>]
                           ELSE e),
               Tail(entries))

RECURSIVE NameGroups_RenameTaken(_, _, _, _)
NameGroups_RenameTaken(hash1, order, i, acc) ==
  IF i > Len(order)
    THEN acc
    ELSE
      LET key == order[i]
          values == hash1[key]
          found_strategy == FindStrategy(values, 1)
      IN  IF Len(values) = 1
            THEN NameGroups_RenameTaken(hash1, order, i + 1,
                   [acc EXCEPT
                      !.r = PushRenamed(@, <<CppAndFfiMethod(values[1],
                                                             key)>>)])
            ELSE IF IsSome(found_strategy)
                   THEN NameGroups_RenameTaken(hash1, order, i + 1,
                          [acc EXCEPT
                             !.r = PushRenamed(@,
                                     NameGroup(key, values,
                                               Unwrap(found_strategy))),
                             !.found = [k \in DOMAIN acc.found \cup {key} |->
                                          IF k = key
                                            THEN Unwrap(found_strategy)
                                            ELSE acc.found[k]]])
                   ELSE [acc EXCEPT !.panicked = TRUE]

\* The second loop of process_methods: the groups of hash1 in the order the
\* hash map yields them, from group i on.  A group without a strategy panics.
RECURSIVE NameGroups(_, _, _, _)
NameGroups(hash1, order, i, acc) ==
  IF i > Len(order)
    THEN acc
    ELSE
      LET key == order[i]
          values == hash1[key]
          found_strategy == FindStrategy(values, 1)
      IN  IF Len(values) = 1
            THEN NameGroups(hash1, order, i + 1,
                   [acc EXCEPT
                      !.r = Append(@, CppAndFfiMethod(values[1], key))])
            ELSE IF IsSome(found_strategy)
                   THEN NameGroups(hash1, order, i + 1,
                          [acc EXCEPT
                             !.r = @ \o NameGroup(key, values,
                                                  Unwrap(found_strategy)),
                             !.found = [k \in DOMAIN acc.found \cup {key} |->
                                          IF k = key
                                            THEN Unwrap(found_strategy)
                                            ELSE acc.found[k]]])
                   ELSE [acc EXCEPT !.panicked = TRUE]

\* r.sort_by(|a, b| a.c_name.cmp(&b.c_name))
SortByCName(r) ==
  LET keyed == [i \in 1..Len(r) |-> [key |-> r[i].c_name, val |-> r[i]]]
      sorted == SortKeyed(keyed)
  IN  [i \in 1..Len(r) |-> sorted[i].val]

\* CGenerator::process_methods, given the order in which hash1.into_iter()
\* yields the groups.  self is [abstract_classes, template_classes].
process_methods(self, include_file_base_name, methods, order) ==
  LET collected ==
        CollectCandidates(self, include_file_base_name, methods, 1,
                          [hash1 |-> EmptyMap, log |-> <<>>])
      named ==
        NameGroups(collected.hash1, order, 1,
                   [panicked |-> FALSE, r |-> <<>>, found |-> EmptyMap])
  IN  [panicked |-> named.panicked,
       methods |-> IF named.panicked THEN <<>> ELSE SortByCName(named.r),
       found |-> named.found,
       log |-> collected.log]

\* The keys of hash1 for a header's methods.
GroupKeys(self, include_file_base_name, methods) ==
  DOMAIN CollectCandidates(self, include_file_base_name, methods, 1,
                           [hash1 |-> EmptyMap, log |-> <<>>]).hash1

\* The orders in which a hash map of the keys S can be iterated.
IterationOrders(S) ==
  {o \in [1..Cardinality(S) -> S] :
     \A i, j \in 1..Cardinality(S) : i # j => o[i] # o[j]}

(***************************************************************************)
(* generate_all                                                            *)
(***************************************************************************)

\* CppData::split_by_headers: the headers that declare a method or a type.
HeaderNames(data) ==
  {data.methods[i].include_file : i \in 1..Len(data.methods)}
    \cup {data.types[i].include_file : i \in 1..Len(data.types)}

\* CppData::split_by_headers: the methods of one header, in their order.
HeaderMethods(data, include_file) ==
  SelectSeq(data.methods, LAMBDA m : m.include_file = include_file)

\* c_headers.sort_by(|a, b| a.include_file.cmp(&b.include_file))
SortByIncludeFile(headers) ==
  LET keyed == [i \in 1..Len(headers) |->
                  [key |-> headers[i].include_file, val |-> headers[i]]]
      sorted == SortKeyed(keyed)
  IN  [i \in 1..Len(headers) |-> sorted[i].val]

\* The header name without a trailing ".h".
IncludeFileBaseName(include_file) ==
  IF EndsWith(include_file, <<".h">>)
    THEN SubSeq(include_file, 1, Len(include_file) - 1)
    ELSE include_file

\* CGenerator::new: the names of the types that are template classes.
TemplateClasses(data) ==
  LET picked == SelectSeq(data.types,
                          LAMBDA t : is_template_class(data, t.name))
  IN  [i \in 1..Len(picked) |-> picked[i].name]

\* The filter_map with each class resolved against the methods of its own
\* header only.
RECURSIVE AbstractClasses_OwnHeader(_, _, _)
AbstractClasses_OwnHeader(data, i, acc) ==
  IF i > Len(data.types)
    THEN [status |-> "ok", classes |-> acc.classes,
          warnings |-> acc.warnings]
    ELSE IF data.types[i].kind = "Class"
           THEN LET own == [data EXCEPT !.methods =
                              SelectSeq(@, LAMBDA m :
                                m.include_file = data.types[i].include_file)]
                    r == get_pure_virtual_methods(own, data.types[i].name, 1)
                IN  IF r.status # "ok"
                      THEN [status |-> r.status, classes |-> acc.classes,
                            warnings |-> acc.warnings \o r.warnings]
                      ELSE AbstractClasses_OwnHeader(
                             data, i + 1,
                             [classes |->
                                IF Len(r.methods) > 0
                                  THEN Append(acc.classes,
                                              data.types[i].name)
                                  ELSE acc.classes,
                              warnings |-> acc.warnings \o r.warnings])
           ELSE AbstractClasses_OwnHeader(data, i + 1, acc)

\* The filter_map of generate_all over the types from type i on: the classes
\* with a pure virtual method, and the warnings the resolver logged; a panic
\* of the resolver ends the run.  acc is [classes, warnings].
RECURSIVE AbstractClasses(_, _, _)
AbstractClasses(data, i, acc) ==
  IF i > Len(data.types)
    THEN [status |-> "ok", classes |-> acc.classes,
          warnings |-> acc.warnings]
    ELSE IF data.types[i].kind = "Class"
           THEN LET r == get_pure_virtual_methods(data, data.types[i].name, 1)
                IN  IF r.status # "ok"
                      THEN [status |-> r.status, classes |-> acc.classes,
                            warnings |-> acc.warnings \o r.warnings]
                      ELSE AbstractClasses(
                             data, i + 1,
                             [classes |->
                                IF Len(r.methods) > 0
                                  THEN Append(acc.classes,
                                              data.types[i].name)
                                  ELSE acc.classes,
                              warnings |-> acc.warnings \o r.warnings])
           ELSE AbstractClasses(data, i + 1, acc)

\* The log records of the resolver's warnings.
NoTypeInfoLog(warnings) ==
  [i \in 1..Len(warnings) |->
     LogRecord("warning", "no type info", warnings[i])]

Self == [abstract_classes |-> abstract_classes,
         template_classes |-> template_classes]

\* The state after CGenerator::new(cpp_data, ..).
InitGenerator(inputs) ==
  /\ cpp_data \in inputs
  /\ template_classes = TemplateClasses(cpp_data)
  /\ abstract_classes = <<>>
  /\ pc = "new"
  /\ pending = {}
  /\ c_headers = <<>>
  /\ include_name_list = <<>>
  /\ generated = <<>>
  /\ log = <<>>
  /\ found = EmptyMap
  /\ resolved = None

\* generate_all up to the loop over the headers: the abstract classes of
\* the whole library, then split_by_headers.
ComputeAbstractClasses ==
  /\ pc = "new"
  /\ LET a == AbstractClasses(cpp_data, 1,
                              [classes |-> <<>>, warnings |-> <<>>])
     IN  IF a.status = "ok"
           THEN /\ abstract_classes' = a.classes
                /\ pending' = HeaderNames(cpp_data)
                /\ pc' = "headers"
                /\ log' = log \o NoTypeInfoLog(a.warnings)
                            \o <<LogRecord("info", "abstract classes",
                                           a.classes)>>
           ELSE /\ pc' = a.status
                /\ log' = log \o NoTypeInfoLog(a.warnings)
                /\ UNCHANGED <<abstract_classes, pending>>
  /\ UNCHANGED <<cpp_data, template_classes, c_headers, include_name_list,
                 generated, found, resolved>>
  /\ UNCHANGED <<cfg_vars, conv_vars>>

\* One iteration of the loop over cpp_data_by_headers, a hash map: any
\* header not yet visited.  process_methods iterates hash1, a hash map too.
VisitHeader(include_file) ==
  /\ pc = "headers"
  /\ include_file \in pending
  /\ pending' = pending \ {include_file}
  /\ IF include_file = <<"QFlags">> \/ include_file = <<"QFlag">>
       THEN /\ log' = Append(log, LogRecord("info", "skipping include file",
                                            include_file))
            /\ UNCHANGED <<pc, c_headers, include_name_list, found>>
       ELSE
         LET include_file_base_name == IncludeFileBaseName(include_file)
             methods == HeaderMethods(cpp_data, include_file)
         IN  \E order \in IterationOrders(
                            GroupKeys(Self, include_file_base_name, methods)) :
               LET p == process_methods(Self, include_file_base_name, methods,
                                        order)
                   started == Append(log, LogRecord("info", "header",
                                                    include_file))
               IN  /\ log' = started \o p.log
                   /\ IF p.panicked
                        THEN /\ pc' = "panic"
                             /\ UNCHANGED <<c_headers, include_name_list,
                                            found>>
                        ELSE /\ c_headers' =
                                  Append(c_headers,
                                         [include_file |-> include_file,
                                          include_file_base_name |->
                                            include_file_base_name,
                                          methods |-> p.methods])
                             /\ include_name_list' =
                                  Append(include_name_list, include_file)
                             /\ found' =
                                  [h \in DOMAIN found \cup {include_file} |->
                                     IF h = include_file THEN p.found
                                     ELSE found[h]]
                             /\ UNCHANGED pc
  /\ UNCHANGED <<cpp_data, template_classes, abstract_classes, generated,
                 resolved>>
  /\ UNCHANGED <<cfg_vars, conv_vars>>

GenerateAllHeadersFile_Early ==
  /\ pc = "headers"
  /\ c_headers' = SortByIncludeFile(c_headers)
  /\ generated' = Append(generated, [call |-> "generate_all_headers_file",
                                     arg |-> include_name_list])
  /\ pc' = "emit"
  /\ UNCHANGED <<cpp_data, template_classes, abstract_classes, pending,
                 include_name_list, log, found, resolved>>
  /\ UNCHANGED <<cfg_vars, conv_vars>>

\* After the loop: c_headers.sort_by(include_file) and
\* code_gen.generate_all_headers_file(&include_name_list).
GenerateAllHeadersFile ==
  /\ pc = "headers"
  /\ pending = {}
  /\ c_headers' = SortByIncludeFile(c_headers)
  /\ generated' = Append(generated, [call |-> "generate_all_headers_file",
                                     arg |-> include_name_list])
  /\ pc' = "emit"
  /\ UNCHANGED <<cpp_data, template_classes, abstract_classes, pending,
                 include_name_list, log, found, resolved>>
  /\ UNCHANGED <<cfg_vars, conv_vars>>

\* One iteration of `for data in &c_headers { code_gen.generate_one(data) }`.
GenerateOne ==
  /\ pc = "emit"
  /\ Len(generated) <= Len(c_headers)
  /\ generated' = Append(generated, [call |-> "generate_one",
                                     arg |-> c_headers[Len(generated)]])
  /\ UNCHANGED <<cpp_data, template_classes, abstract_classes, pc, pending,
                 c_headers, include_name_list, log, found, resolved>>
  /\ UNCHANGED <<cfg_vars, conv_vars>>

\* generate_all returns CppAndFfiData.
Return ==
  /\ pc = "emit"
  /\ Len(generated) = Len(c_headers) + 1
  /\ pc' = "done"
  /\ UNCHANGED <<cpp_data, template_classes, abstract_classes, pending,
                 c_headers, include_name_list, generated, log, found,
                 resolved>>
  /\ UNCHANGED <<cfg_vars, conv_vars>>

\* A call of get_all_methods(name) on the constructed generator.
GetAllMethods(name) ==
  /\ pc = "new"
  /\ LET r == get_all_methods(cpp_data, name, 1)
     IN  /\ resolved' = Some([class_name |-> name, status |-> r.status,
                               methods |-> r.methods])
         /\ log' = log \o NoTypeInfoLog(r.warnings)
  /\ pc' = "resolved"
  /\ UNCHANGED <<cpp_data, template_classes, abstract_classes, pending,
                 c_headers, include_name_list, generated, found>>
  /\ UNCHANGED <<cfg_vars, conv_vars>>

TypeNames(data) == {data.types[i].name : i \in 1..Len(data.types)}

Next ==
  \/ ComputeAbstractClasses
  \/ \E include_file \in pending : VisitHeader(include_file)
  \/ GenerateAllHeadersFile
  \/ GenerateOne
  \/ Return
  \/ \E name \in TypeNames(cpp_data) : GetAllMethods(name)

(***************************************************************************)
(* Inputs                                                                  *)
(***************************************************************************)

ClassType(name, template_arguments) ==
  [name |-> name, template_arguments |-> template_arguments]

Membership(class_type, kind, virtual, pure, is_const, visibility, signal) ==
  [class_type |-> class_type, kind |-> kind, is_virtual |-> virtual,
   is_pure_virtual |-> pure, is_const |-> is_const,
   visibility |-> visibility, is_signal |-> signal]

Argument(type) == [argument_type |-> type, has_default_value |-> FALSE]

Arguments(types) == [i \in 1..Len(types) |-> Argument(types[i])]

Method(name, class_membership, types, template_arguments, include_file) ==
  [name |-> name, class_membership |-> class_membership, operator |-> None,
   arguments |-> Arguments(types), arguments_before_omitting |-> None,
   template_arguments |-> template_arguments, include_file |-> include_file]

FreeFunction(name, types, include_file) ==
  Method(name, None, types, None, include_file)

\* A public member of a class that is no template, declared in the header
\* named after the class.
PublicMember(class, name, kind, types, is_const, virtual, pure) ==
  Method(name,
         Some(Membership(ClassType(class, None), kind, virtual, pure,
                         is_const, "Public", FALSE)),
         types, None, class)

ClassBase(name) == [base |-> [tag |-> "Class", name |-> name]]

TypeData(name, include_file, kind, bases, template_arguments) ==
  [name |-> name, include_file |-> include_file, kind |-> kind,
   bases |-> bases, template_arguments |-> template_arguments]

PlainClass(name, bases) == TypeData(name, name, "Class", bases, None)

Data(types, methods, template_instantiations) ==
  [types |-> types, methods |-> methods,
   template_instantiations |-> template_instantiations,
   dependencies |-> <<>>]

\* The data with these CppData of the libraries it depends on.
WithDependencies(data, dependencies) ==
  [data EXCEPT !.dependencies = dependencies]

\* Bound: the number of methods of an input of NamingInputs.
MaxMethods == 3

\* Overloads and look-alike names in one header (a.h), const and non-const
\* overloads of a class (header A), a function of the excluded header QFlags
\* and a function whose signature cannot be synthesized.
NamingUniverse ==
  {FreeFunction(<<"f">>, <<>>, <<"a", ".h">>),
   FreeFunction(<<"f">>, <<"int">>, <<"a", ".h">>),
   FreeFunction(<<"f">>, <<"double">>, <<"a", ".h">>),
   FreeFunction(<<"f", "_", "int">>, <<>>, <<"a", ".h">>),
   FreeFunction(<<"f">>, <<"T">>, <<"a", ".h">>),
   FreeFunction(<<"f">>, <<>>, <<"QFlags">>),
   PublicMember(<<"A">>, <<"f">>, "Regular", <<>>, FALSE, FALSE, FALSE),
   PublicMember(<<"A">>, <<"f">>, "Regular", <<>>, TRUE, FALSE, FALSE),
   PublicMember(<<"A">>, <<"f">>, "Regular", <<"int">>, FALSE, FALSE, FALSE)}

NamingInputs ==
  {Data(<<PlainClass(<<"A">>, <<>>)>>, methods, <<>>) :
     methods \in SeqUpTo(NamingUniverse, MaxMethods)}

\* Bound: the number of methods of an input of HierarchyInputs, besides the
\* constructors of the three classes.
MaxHierarchyMethods == 2

\* A method f() or g(int) of class A, B or C: plain, virtual or pure virtual.
HierarchyUniverse ==
  {PublicMember(class, sig[1], "Regular", sig[2], FALSE, flavor[1], flavor[2]) :
     class \in {<<"A">>, <<"B">>, <<"C">>},
     sig \in {<<<<"f">>, <<>>>>, <<<<"g">>, <<"int">>>>},
     flavor \in {<<FALSE, FALSE>>, <<TRUE, FALSE>>, <<TRUE, TRUE>>}}

\* The public constructors of A, B and C.
Constructors ==
  <<PublicMember(<<"A">>, <<"A">>, "Constructor", <<>>, FALSE, FALSE, FALSE),
    PublicMember(<<"B">>, <<"B">>, "Constructor", <<>>, FALSE, FALSE, FALSE),
    PublicMember(<<"C">>, <<"C">>, "Constructor", <<>>, FALSE, FALSE, FALSE)>>

\* Classes A, B and C, each in its own header: B with or without the base
\* A, C with or without the base B.
HierarchyInputs ==
  {Data(<<PlainClass(<<"A">>, <<>>), PlainClass(<<"B">>, bases_b),
          PlainClass(<<"C">>, bases_c)>>,
        Constructors \o methods, <<>>) :
     bases_b \in {<<>>, <<ClassBase(<<"A">>)>>},
     bases_c \in {<<>>, <<ClassBase(<<"B">>)>>},
     methods \in SeqUpTo(HierarchyUniverse, MaxHierarchyMethods)}

\* Bound: the number of methods of an input of FilterInputs, besides the
\* pure virtual method that makes B abstract.
MaxFilterMethods == 1

\* The classes of the filter's inputs, all declared in a.h: A, the abstract
\* B, the template class QVector<T> and its instantiation QVector<int>.
FilterClassTypes ==
  {ClassType(<<"A">>, None), ClassType(<<"B">>, None),
   ClassType(<<"QVector">>, Some(<<"T">>)),
   ClassType(<<"QVector">>, Some(<<"int">>))}

\* Every combination of the properties the filter reads, with a signature
\* that can be synthesized (int) or not (T).
FilterUniverse ==
  {Method(<<"f">>,
          Some(Membership(class_type, kind, FALSE, FALSE, FALSE, visibility,
                          signal)),
          types, template_arguments, <<"a", ".h">>) :
     class_type \in FilterClassTypes, kind \in {"Regular", "Constructor"},
     visibility \in {"Public", "Protected", "Private"}, signal \in BOOLEAN,
     types \in {<<"int">>, <<"T">>},
     template_arguments \in {None, Some(<<"T">>)}}
  \cup
  {Method(<<"f">>, None, types, template_arguments, <<"a", ".h">>) :
     types \in {<<"int">>, <<"T">>},
     template_arguments \in {None, Some(<<"T">>)}}

FilterTypes ==
  <<TypeData(<<"A">>, <<"a", ".h">>, "Class", <<>>, None),
    TypeData(<<"B">>, <<"a", ".h">>, "Class", <<>>, None),
    TypeData(<<"QVector">>, <<"a", ".h">>, "Class", <<>>, Some(<<"T">>))>>

FilterInputs ==
  {Data(FilterTypes,
        <<Method(<<"g">>,
                 Some(Membership(ClassType(<<"B">>, None), "Regular", TRUE,
                                 TRUE, FALSE, "Public", FALSE)),
                 <<>>, None, <<"a", ".h">>)>> \o methods,
        <<[class_name |-> <<"QVector">>,
           instantiations |-> <<[template_arguments |-> <<"int">>]>>]>>) :
     methods \in SeqUpTo(FilterUniverse, MaxFilterMethods)}

\* Bound: the number of methods of an input of SynthesisInputs.
MaxSynthesisMethods == 3

\* The method with its last n arguments given default values.
Defaulted(m, n) ==
  [m EXCEPT !.arguments =
     [i \in 1..Len(m.arguments) |->
        IF i > Len(m.arguments) - n
          THEN [m.arguments[i] EXCEPT !.has_default_value = TRUE]
          ELSE m.arguments[i]]]

\* A free conversion operator to the type.
ConversionOperator(type, include_file) ==
  [FreeFunction(<<"operator">>, <<>>, include_file) EXCEPT
     !.operator = Some(type)]

\* Free functions of a.h: overloads of f, one of them over a template
\* parameter; conversion operators to int and to a template parameter;
\* h(int, int = 0) and overloads of h.
SynthesisUniverse ==
  {FreeFunction(<<"f">>, <<"int">>, <<"a", ".h">>),
   FreeFunction(<<"f">>, <<"double">>, <<"a", ".h">>),
   FreeFunction(<<"f">>, <<"T">>, <<"a", ".h">>),
   ConversionOperator("int", <<"a", ".h">>),
   ConversionOperator("T", <<"a", ".h">>),
   Defaulted(FreeFunction(<<"h">>, <<"int", "int">>, <<"a", ".h">>), 1),
   FreeFunction(<<"h">>, <<"int">>, <<"a", ".h">>),
   FreeFunction(<<"h">>, <<"double">>, <<"a", ".h">>)}

\* The header a.h with the class A and up to MaxSynthesisMethods of these
\* functions.
SynthesisInputs ==
  {Data(<<TypeData(<<"A">>, <<"a", ".h">>, "Class", <<>>, None)>>,
        methods, <<>>) :
     methods \in SeqUpTo(SynthesisUniverse, MaxSynthesisMethods)}

\* Bound: the number of base specifiers of the class D of BasesInputs.
MaxBases == 2

\* A base specifier that is a template parameter, no class.
TemplateParameterBase ==
  [base |-> [tag |-> "TemplateParameter", name |-> <<>>]]

\* The base specifiers of D: the classes A, B and C, the enum E, a class X
\* that no CppData declares, the class P of the dependency, and a template
\* parameter.
BaseSpecifierUniverse ==
  {ClassBase(<<"A">>), ClassBase(<<"B">>), ClassBase(<<"C">>),
   ClassBase(<<"E">>), ClassBase(<<"X">>), ClassBase(<<"P">>),
   TemplateParameterBase}

\* A public member f() of the class, declared in the header.
MemberF(class, virtual, pure, include_file) ==
  Method(<<"f">>,
         Some(Membership(ClassType(class, None), "Regular", virtual, pure,
                         FALSE, "Public", FALSE)),
         <<>>, None, include_file)

\* A public member f(int) of the class, declared in the header.
OverloadOfF(class, include_file) ==
  Method(<<"f">>,
         Some(Membership(ClassType(class, None), "Regular", FALSE, FALSE,
                         FALSE, "Public", FALSE)),
         <<"int">>, None, include_file)

\* What a class declares of f in the header: nothing, a plain f(), a pure
\* virtual f(), or the overload f(int) and no f().
DeclarationOfF(class, how, include_file) ==
  CASE how = "none" -> <<>>
    [] how = "plain" -> <<MemberF(class, FALSE, FALSE, include_file)>>
    [] how = "pure" -> <<MemberF(class, TRUE, TRUE, include_file)>>
    [] how = "overload" -> <<OverloadOfF(class, include_file)>>

\* What A, B, C and D declare of f: the overload is B's alone.
DeclarationsOfF ==
  {how \in [1..4 -> {"none", "plain", "pure", "overload"}] :
     \A k \in {1, 3, 4} : how[k] # "overload"}

\* The library this one depends on: the class P with a pure virtual f().
Dependency ==
  Data(<<TypeData(<<"P">>, <<"P">>, "Class", <<>>, None)>>,
       <<MemberF(<<"P">>, TRUE, TRUE, <<"P">>)>>, <<>>)

\* The header b.h: A, B and C derived from A, the enum E.  The header a.h:
\* D with up to MaxBases base specifiers and a constructor.  Each class
\* declares f() or not; B may declare f(int) instead.
BasesInputs ==
  {WithDependencies(
     Data(<<TypeData(<<"A">>, <<"b", ".h">>, "Class", <<>>, None),
            TypeData(<<"B">>, <<"b", ".h">>, "Class",
                     <<ClassBase(<<"A">>)>>, None),
            TypeData(<<"C">>, <<"b", ".h">>, "Class",
                     <<ClassBase(<<"A">>)>>, None),
            TypeData(<<"D">>, <<"a", ".h">>, "Class", bases, None),
            TypeData(<<"E">>, <<"b", ".h">>, "Enum", <<>>, None)>>,
          <<Method(<<"D">>,
                   Some(Membership(ClassType(<<"D">>, None), "Constructor",
                                   FALSE, FALSE, FALSE, "Public", FALSE)),
                   <<>>, None, <<"a", ".h">>)>>
            \o DeclarationOfF(<<"A">>, how[1], <<"b", ".h">>)
            \o DeclarationOfF(<<"B">>, how[2], <<"b", ".h">>)
            \o DeclarationOfF(<<"C">>, how[3], <<"b", ".h">>)
            \o DeclarationOfF(<<"D">>, how[4], <<"a", ".h">>),
          <<>>),
     <<Dependency>>) :
     bases \in SeqUpTo(BaseSpecifierUniverse, MaxBases),
     how \in DeclarationsOfF}

\* Bound: the number of base specifiers of each class of CycleInputs.
MaxCycleBases == 1

\* The header a.h with the classes A, B and C, each with up to MaxCycleBases
\* of A, B and C as its bases, itself included: chains, diamonds and cycles.
\* A declares a pure virtual f().
CycleInputs ==
  {Data(<<TypeData(<<"A">>, <<"a", ".h">>, "Class", bases[1], None),
          TypeData(<<"B">>, <<"a", ".h">>, "Class", bases[2], None),
          TypeData(<<"C">>, <<"a", ".h">>, "Class", bases[3], None)>>,
        <<MemberF(<<"A">>, TRUE, TRUE, <<"a", ".h">>)>>, <<>>) :
     bases \in [1..3 -> SeqUpTo({ClassBase(<<"A">>), ClassBase(<<"B">>),
                                  ClassBase(<<"C">>)}, MaxCycleBases)]}

(***************************************************************************)
(* Specifications                                                          *)
(***************************************************************************)

\* The generator on the inputs of NamingInputs; no build configuration.
Init ==
  InitGenerator(NamingInputs) /\ InitBuildConfig /\ InitNoConversion

Spec == Init /\ [][Next]_vars

\* The generator on the inputs of HierarchyInputs.
InitHierarchy ==
  InitGenerator(HierarchyInputs) /\ InitBuildConfig /\ InitNoConversion

SpecHierarchy == InitHierarchy /\ [][Next]_vars

\* The generator on the inputs of FilterInputs.
InitFilter ==
  InitGenerator(FilterInputs) /\ InitBuildConfig /\ InitNoConversion

SpecFilter == InitFilter /\ [][Next]_vars

\* The generator on the inputs of SynthesisInputs.
InitSynthesis ==
  InitGenerator(SynthesisInputs) /\ InitBuildConfig /\ InitNoConversion

SpecSynthesis == InitSynthesis /\ [][Next]_vars

\* The generator on the inputs of BasesInputs.
InitBases ==
  InitGenerator(BasesInputs) /\ InitBuildConfig /\ InitNoConversion

SpecBases == InitBases /\ [][Next]_vars

\* The generator on the inputs of CycleInputs.
InitCycles ==
  InitGenerator(CycleInputs) /\ InitBuildConfig /\ InitNoConversion

SpecCycles == InitCycles /\ [][Next]_vars

\* The conversion synthesizer on its own, on every type of CppTypeUniverse.
InitConversion ==
  /\ InitBuildConfig
  /\ cpp_data = Data(<<>>, <<>>, <<>>)
  /\ template_classes = <<>>
  /\ abstract_classes = <<>>
  /\ pc = "idle"
  /\ pending = {}
  /\ c_headers = <<>>
  /\ include_name_list = <<>>
  /\ generated = <<>>
  /\ log = <<>>
  /\ found = EmptyMap
  /\ resolved = None
  /\ cpp_type \in CppTypeUniverse
  /\ complete_type = None

SpecConversion == InitConversion /\ [][NextConversion]_vars

\* A build configuration on its own: no generator runs.
InitConfigOnly ==
  /\ InitBuildConfig
  /\ InitNoConversion
  /\ cpp_data = Data(<<>>, <<>>, <<>>)
  /\ template_classes = <<>>
  /\ abstract_classes = <<>>
  /\ pc = "idle"
  /\ pending = {}
  /\ c_headers = <<>>
  /\ include_name_list = <<>>
  /\ generated = <<>>
  /\ log = <<>>
  /\ found = EmptyMap
  /\ resolved = None

SpecBuildConfig == InitConfigOnly /\ [][NextBuildConfig]_vars

(***************************************************************************)
(* Claims about process_methods: names, order, determinism (under Spec)    *)
(***************************************************************************)

ExcludedHeaders == {<<"QFlags">>, <<"QFlag">>}

\* hash1 of a header: the candidates that pass the filter, by base name.
Hash1Of(include_file) ==
  CollectCandidates(Self, IncludeFileBaseName(include_file),
                    HeaderMethods(cpp_data, include_file), 1,
                    [hash1 |-> EmptyMap, log |-> <<>>]).hash1

\* Some group of the header has two or more candidates and every caption
\* strategy gives two of them the same caption.
Undisambiguable(include_file) ==
  LET hash1 == Hash1Of(include_file)
  IN  \E key \in DOMAIN hash1 :
        /\ Len(hash1[key]) >= 2
        /\ \A k \in 1..Len(MethodCaptionStrategyAll) :
             \E i, j \in 1..Len(hash1[key]) :
               /\ i # j
               /\ caption(hash1[key][i], MethodCaptionStrategyAll[k])
                    = caption(hash1[key][j], MethodCaptionStrategyAll[k])

\* The smallest key first: one fixed order of iteration.
RECURSIVE ReferenceOrder(_)
ReferenceOrder(keys) ==
  IF keys = {}
    THEN <<>>
    ELSE LET least == CHOOSE k \in keys :
                        \A l \in keys : l = k \/ StrLess(k, l)
         IN  <<least>> \o ReferenceOrder(keys \ {least})

\* What process_methods returns for the header when hash1 is iterated in
\* the reference order.
ReferenceRun(include_file) ==
  process_methods(Self, IncludeFileBaseName(include_file),
                  HeaderMethods(cpp_data, include_file),
                  ReferenceOrder(DOMAIN Hash1Of(include_file)))

Count(s, x) == Cardinality({i \in 1..Len(s) : s[i] = x})

SameEntries(a, b) ==
  /\ Len(a) = Len(b)
  /\ \A i \in 1..Len(a) : Count(a, a[i]) = Count(b, a[i])

\* C1: no two methods of a returned list carry the same shim symbol name,
\* also when they come from different base-name groups.
C1_NamesUnique ==
  \A h \in 1..Len(c_headers) :
    \A i, j \in 1..Len(c_headers[h].methods) :
      i # j => c_headers[h].methods[i].c_name # c_headers[h].methods[j].c_name

\* C5: a header with a group that no caption strategy makes unique aborts
\* the run when it is visited; no list is ever returned for it, and the run
\* does not complete.
C5_FatalWhenNoStrategy ==
  /\ \A h \in 1..Len(c_headers) : ~Undisambiguable(c_headers[h].include_file)
  /\ \A include_file \in HeaderNames(cpp_data) \ ExcludedHeaders :
       (/\ pc \in {"headers", "emit", "done", "panic"}
        /\ include_file \notin pending
        /\ Undisambiguable(include_file)) => pc = "panic"

\* C5 witness: the run aborted on a header with two candidates f(int) under
\* one base name.
C5_Witness ==
  /\ pc = "panic"
  /\ \E include_file \in HeaderNames(cpp_data) \ ExcludedHeaders :
       /\ Undisambiguable(include_file)
       /\ \E key \in DOMAIN Hash1Of(include_file) :
            /\ Len(Hash1Of(include_file)[key]) = 2
            /\ Hash1Of(include_file)[key][1] = Hash1Of(include_file)[key][2]

\* C6: the caption strategy chosen for every colliding group and the name
\* given to every candidate do not depend on the order in which the hash map
\* of base names is iterated: they are those of the reference order.
C6_NamesIndependentOfIterationOrder ==
  \A h \in 1..Len(c_headers) :
    LET reference == ReferenceRun(c_headers[h].include_file)
    IN  /\ ~reference.panicked
        /\ SameEntries(c_headers[h].methods, reference.methods)
        /\ found[c_headers[h].include_file] = reference.found

\* C6 witness: a returned list of a header with two groups, one of them
\* named by a caption strategy.
C6_Witness ==
  \E h \in 1..Len(c_headers) :
    /\ Cardinality(DOMAIN Hash1Of(c_headers[h].include_file)) = 2
    /\ DOMAIN found[c_headers[h].include_file] # {}

Sorted(methods) ==
  \A i \in 1..(Len(methods) - 1) :
    ~StrLess(methods[i + 1].c_name, methods[i].c_name)

\* C7: every returned list is sorted by shim symbol name, and it is the same
\* sequence of (method, name) entries whatever the order in which the hash
\* map of base names is iterated.
C7_SortedAndReproducible ==
  \A h \in 1..Len(c_headers) :
    /\ Sorted(c_headers[h].methods)
    /\ c_headers[h].methods = ReferenceRun(c_headers[h].include_file).methods

\* The captions of the group under the strategy are pairwise distinct.
PairwiseDistinct(values, strategy) ==
  \A i, j \in 1..Len(values) :
    i # j => caption(values[i], strategy) # caption(values[j], strategy)

\* The name of a candidate of the group under the strategy.
NameUnder(key, value, strategy) ==
  IF caption(value, strategy) = <<>>
    THEN key
    ELSE key \o <<"_">> \o caption(value, strategy)

\* The entries of a method list for this candidate.
Named(methods, value) ==
  {methods[i].c_name :
     i \in {k \in 1..Len(methods) :
              methods[k].cpp_method = value.cpp_method}}

\* C19: in the output of a processed header a base name with one candidate
\* is that candidate's name; a group of two or more is named by the first
\* strategy of MethodCaptionStrategy::all() whose captions are pairwise
\* distinct over the group, every member by that strategy, as the base name,
\* "_" and the caption (the base name alone for an empty caption).
C19_NamingRule ==
  \A h \in 1..Len(c_headers) :
    LET include_file == c_headers[h].include_file
        hash1 == Hash1Of(include_file)
        methods == c_headers[h].methods
    IN  \A key \in DOMAIN hash1 :
          LET values == hash1[key]
              distinct == {k \in 1..Len(MethodCaptionStrategyAll) :
                             PairwiseDistinct(values,
                                              MethodCaptionStrategyAll[k])}
          IN  IF Len(values) = 1
                THEN /\ Named(methods, values[1]) = {key}
                     /\ key \notin DOMAIN found[include_file]
                ELSE /\ distinct # {}
                     /\ LET first == CHOOSE k \in distinct :
                                       \A l \in distinct : k <= l
                            strategy == MethodCaptionStrategyAll[first]
                        IN  /\ key \in DOMAIN found[include_file]
                            /\ found[include_file][key] = strategy
                            /\ \A i \in 1..Len(values) :
                                 Named(methods, values[i])
                                   = {NameUnder(key, values[i], strategy)}

\* C19 witness: A::f() and A::f() const are named by ConstOnly, the second
\* strategy, although the third gives distinct captions too; the free
\* function f() alone in its group keeps the base name.
C19_Witness ==
  /\ pc = "done"
  /\ <<"A">> \in DOMAIN found
  /\ <<"A", "_", "f">> \in DOMAIN found[<<"A">>]
  /\ found[<<"A">>][<<"A", "_", "f">>] = "ConstOnly"
  /\ \E h \in 1..Len(c_headers) :
       /\ c_headers[h].include_file = <<"A">>
       /\ {c_headers[h].methods[i].c_name :
             i \in 1..Len(c_headers[h].methods)}
            = {<<"A", "_", "f">>, <<"A", "_", "f", "_", "const">>}
  /\ \E h \in 1..Len(c_headers) :
       /\ c_headers[h].include_file = <<"a", ".h">>
       /\ Len(c_headers[h].methods) = 1
       /\ c_headers[h].methods[1].c_name = <<"a", "_", "G", "_", "f">>

\* The headers of the input that generate_all does not skip.
ProcessedHeaders == HeaderNames(cpp_data) \ ExcludedHeaders

\* The headers for which process_methods has returned.
CompletedHeaders ==
  {c_headers[h].include_file : h \in 1..Len(c_headers)}

\* C11: nothing is handed to the code generator before process_methods has
\* returned for every header that is not skipped; a run that aborted has
\* emitted nothing; a run that completed returns exactly one record for
\* every header that is not skipped.
C11_NoPartialEmission ==
  /\ generated # <<>> =>
       /\ pending = {}
       /\ CompletedHeaders = ProcessedHeaders
  /\ pc = "panic" => generated = <<>>
  /\ pc = "done" =>
       /\ CompletedHeaders = ProcessedHeaders
       /\ Len(c_headers) = Cardinality(ProcessedHeaders)

\* C11 witness: the run aborted on a group no strategy names after
\* process_methods had returned for another header, and nothing was
\* emitted.
C11_Witness ==
  /\ pc = "panic"
  /\ abstract_classes = <<>>
  /\ Len(c_headers) >= 1
  /\ pending # {}
  /\ generated = <<>>

(***************************************************************************)
(* Claims about the class hierarchy (checked under SpecHierarchy)          *)
(***************************************************************************)

\* The methods of the input that class `class` declares with this name and
\* these argument types.
Declared(class, name, types) ==
  {i \in 1..Len(cpp_data.methods) :
     /\ class_name(cpp_data.methods[i]) = Some(class)
     /\ cpp_data.methods[i].name = name
     /\ [k \in 1..Len(cpp_data.methods[i].arguments) |->
          cpp_data.methods[i].arguments[k].argument_type] = types}

BasesOf(class) == cpp_data.types[FindType(cpp_data, class)].bases

\* C derives from B, B derives from A, A declares f() pure virtual and
\* neither B nor C declares f().
AbstractChain ==
  /\ FindType(cpp_data, <<"A">>) # 0
  /\ FindType(cpp_data, <<"B">>) # 0
  /\ FindType(cpp_data, <<"C">>) # 0
  /\ BasesOf(<<"A">>) = <<>>
  /\ BasesOf(<<"B">>) = <<ClassBase(<<"A">>)>>
  /\ BasesOf(<<"C">>) = <<ClassBase(<<"B">>)>>
  /\ \E i \in Declared(<<"A">>, <<"f">>, <<>>) :
       Unwrap(cpp_data.methods[i].class_membership).is_pure_virtual
  /\ Declared(<<"B">>, <<"f">>, <<>>) = {}
  /\ Declared(<<"C">>, <<"f">>, <<>>) = {}

\* Some header's output holds a constructor of one of these classes.
ConstructorEmitted(classes) ==
  \E h \in 1..Len(c_headers) :
    \E i \in 1..Len(c_headers[h].methods) :
      LET m == c_headers[h].methods[i].cpp_method
      IN  /\ IsSome(m.class_membership)
          /\ Unwrap(m.class_membership).kind = "Constructor"
          /\ Unwrap(m.class_membership).class_type.name \in classes

\* C2: when C derives from B, B from A, A declares f() pure virtual and
\* neither B nor C overrides it, then once the abstract classes are computed
\* A, B and C are all among them, and no constructor of A, B or C is in the
\* output method list of any header.
C2_AbstractnessPropagates ==
  (AbstractChain /\ pc \in {"headers", "emit", "done", "panic"}) =>
    /\ {<<"A">>, <<"B">>, <<"C">>} \subseteq Range(abstract_classes)
    /\ ~ConstructorEmitted({<<"A">>, <<"B">>, <<"C">>})

\* C2 witness: the generator ran to the end on such a chain, with the three
\* headers in the output.
C2_Witness ==
  /\ AbstractChain
  /\ pc = "done"
  /\ Len(c_headers) = 3

\* The entries of a method list named g that take one int.
EntriesOfG(methods) ==
  {i \in 1..Len(methods) :
     /\ methods[i].name = <<"g">>
     /\ Len(methods[i].arguments) = 1
     /\ methods[i].arguments[1].argument_type = "int"}

\* B derives from A, A declares a virtual g(int) and B declares g(int),
\* once.
OverrideOfG ==
  /\ FindType(cpp_data, <<"A">>) # 0
  /\ FindType(cpp_data, <<"B">>) # 0
  /\ BasesOf(<<"B">>) = <<ClassBase(<<"A">>)>>
  /\ \E i \in Declared(<<"A">>, <<"g">>, <<"int">>) :
       Unwrap(cpp_data.methods[i].class_membership).is_virtual
  /\ Cardinality(Declared(<<"B">>, <<"g">>, <<"int">>)) = 1

\* C3: when B derives from A, A declares a virtual g(int) and B declares
\* g(int), get_all_methods(B) holds exactly one g(int), and it is the one
\* that B declares.
C3_OverrideShadowsBase ==
  (OverrideOfG /\ IsSome(resolved)
     /\ Unwrap(resolved).class_name = <<"B">>) =>
    LET methods == Unwrap(resolved).methods
    IN  /\ Unwrap(resolved).status = "ok"
        /\ Cardinality(EntriesOfG(methods)) = 1
        /\ \A i \in EntriesOfG(methods) :
             class_name(methods[i]) = Some(<<"B">>)

\* C3 witness: get_all_methods(B) returned for such an override, B's
\* g(int) being non-virtual.
C3_Witness ==
  /\ OverrideOfG
  /\ IsSome(resolved)
  /\ Unwrap(resolved).class_name = <<"B">>
  /\ \E i \in Declared(<<"B">>, <<"g">>, <<"int">>) :
       ~Unwrap(cpp_data.methods[i].class_membership).is_virtual
  /\ EntriesOfG(Unwrap(resolved).methods) # {}

(***************************************************************************)
(* Claims about the eligibility filter (checked under SpecFilter)          *)
(***************************************************************************)

IsPrivate(m) ==
  /\ IsSome(m.class_membership)
  /\ Unwrap(m.class_membership).visibility = "Private"

\* The methods a processed header returned.
Emitted(include_file) ==
  UNION {Range([i \in 1..Len(c_headers[h].methods) |->
                  c_headers[h].methods[i].cpp_method]) :
           h \in {k \in 1..Len(c_headers) :
                    c_headers[k].include_file = include_file}}

\* C4: no private method is in the output method list of any header,
\* whatever its kind, signal flag, template arguments, class and signature.
C4_PrivateNeverEmitted ==
  \A h \in 1..Len(c_headers) :
    \A i \in 1..Len(c_headers[h].methods) :
      ~IsPrivate(c_headers[h].methods[i].cpp_method)

\* C4 witness: the generator ran to the end on an input with a private
\* method of the plain class A that is neither a signal nor a template and
\* whose signature can be synthesized: only its visibility excludes it.
C4_Witness ==
  /\ pc = "done"
  /\ Len(c_headers) = 1
  /\ \E i \in 1..Len(cpp_data.methods) :
       LET m == cpp_data.methods[i]
       IN  /\ IsPrivate(m)
           /\ class_name(m) = Some(<<"A">>)
           /\ Unwrap(m.class_membership).kind = "Regular"
           /\ ~Unwrap(m.class_membership).is_signal
           /\ m.template_arguments = None
           /\ to_ffi_signatures(m).ok

\* The class of the method is one of the template classes, or nested in
\* one.
InTemplateClass(m) ==
  /\ IsSome(m.class_membership)
  /\ \E i \in 1..Len(template_classes) :
       \/ Unwrap(m.class_membership).class_type.name = template_classes[i]
       \/ StartsWith(Unwrap(m.class_membership).class_type.name,
                     template_classes[i] \o <<"::">>)

\* The predicates of the filter that hold of the method, by their position
\* in the fixed order.
RulesMatching(m) ==
  {n \in 1..6 :
     CASE n = 1 -> /\ IsSome(m.class_membership)
                   /\ Unwrap(m.class_membership).kind = "Constructor"
                   /\ Unwrap(m.class_membership).class_type.name
                        \in Range(abstract_classes)
       [] n = 2 -> IsPrivate(m)
       [] n = 3 -> /\ IsSome(m.class_membership)
                   /\ Unwrap(m.class_membership).visibility = "Protected"
       [] n = 4 -> /\ IsSome(m.class_membership)
                   /\ Unwrap(m.class_membership).is_signal
       [] n = 5 -> IsSome(m.template_arguments)
       [] n = 6 -> InTemplateClass(m)}

\* The diagnostic of the rule at position n for the method; none for
\* private.
DiagnosticOfRule(n, m) ==
  CASE n = 1 -> <<LogRecord("debug", "abstract constructor", m)>>
    [] n = 2 -> <<>>
    [] n = 3 -> <<LogRecord("debug", "protected", m)>>
    [] n = 4 -> <<LogRecord("warning", "signal", m)>>
    [] n = 5 -> <<LogRecord("warning", "template method", m)>>
    [] n = 6 -> <<LogRecord("warning", "method of template class", m)>>

\* The diagnostics the filter owes the methods, in their order: for each
\* method that of the earliest rule that holds of it.
RECURSIVE ExpectedDiagnostics(_)
ExpectedDiagnostics(methods) ==
  IF methods = <<>>
    THEN <<>>
    ELSE LET rules == RulesMatching(Head(methods))
         IN  (IF rules = {}
                THEN <<>>
                ELSE DiagnosticOfRule(
                       CHOOSE n \in rules : \A k \in rules : n <= k,
                       Head(methods)))
               \o ExpectedDiagnostics(Tail(methods))

\* The diagnostics of the filter in the log.
FilterDiagnostics ==
  SelectSeq(log, LAMBDA r : r.what \in {"abstract constructor", "protected",
                                         "signal", "template method",
                                         "method of template class"})

\* The methods for which the log holds a record of failed synthesis.
SynthesisAttempted(include_file) ==
  Emitted(include_file)
    \cup {log[i].method : i \in {k \in 1..Len(log) :
                                   log[k].what \in {"no signature",
                                                     "no base name"}}}

\* C18: the filter applies its predicates in the order abstract
\* constructor, private, protected, signal, template method, method of a
\* template class: once a.h is processed the log holds, for each method in
\* order, the diagnostic of the earliest predicate that holds of it and no
\* other (none for private), and exactly the methods of which no predicate
\* holds reached synthesis; a free function can only match the template
\* method rule.
C18_FilterOrder ==
  <<"a", ".h">> \in CompletedHeaders =>
    LET methods == HeaderMethods(cpp_data, <<"a", ".h">>)
    IN  /\ FilterDiagnostics = ExpectedDiagnostics(methods)
        /\ \A i \in 1..Len(methods) :
             /\ (RulesMatching(methods[i]) = {})
                  <=> (methods[i] \in SynthesisAttempted(<<"a", ".h">>))
             /\ methods[i].class_membership = None =>
                  RulesMatching(methods[i]) \subseteq {5}

\* C18 witness: a private signal constructor of the abstract class B with
\* template arguments of its own, dropped as an abstract constructor with
\* that diagnostic alone.
C18_Witness ==
  /\ pc = "done"
  /\ \E i \in 1..Len(cpp_data.methods) :
       /\ RulesMatching(cpp_data.methods[i]) = {1, 2, 4, 5}
       /\ FilterDiagnostics =
            <<LogRecord("debug", "abstract constructor",
                        cpp_data.methods[i])>>

\* The class of the method is an instantiation of a class template that the
\* input registers in template_instantiations.
RegisteredInstantiation(m) ==
  /\ IsSome(m.class_membership)
  /\ LET class_type == Unwrap(m.class_membership).class_type
     IN  /\ IsSome(class_type.template_arguments)
         /\ \E t \in 1..Len(cpp_data.template_instantiations) :
              /\ cpp_data.template_instantiations[t].class_name
                   = class_type.name
              /\ \E k \in 1..Len(cpp_data.template_instantiations[t]
                                     .instantiations) :
                   cpp_data.template_instantiations[t].instantiations[k]
                     .template_arguments
                     = Unwrap(class_type.template_arguments)

\* The method passes every rule of the filter before the template-class
\* rule, and its signature can be synthesized.
PassesOtherRules(m) ==
  /\ IsSome(m.class_membership) =>
       /\ ~(/\ Unwrap(m.class_membership).kind = "Constructor"
            /\ Unwrap(m.class_membership).class_type.name
                 \in Range(abstract_classes))
       /\ Unwrap(m.class_membership).visibility = "Public"
       /\ ~Unwrap(m.class_membership).is_signal
  /\ m.template_arguments = None
  /\ to_ffi_signatures(m).ok

\* C8: the template-class rule drops a method only when its class is a
\* template class and not a registered instantiation: in a finished run
\* every method of a registered instantiation (QVector<int>) that passes
\* the other rules is in the output of its header.
C8_RegisteredInstantiationKept ==
  pc = "done" =>
    \A i \in 1..Len(cpp_data.methods) :
      LET m == cpp_data.methods[i]
      IN  (PassesOtherRules(m) /\ RegisteredInstantiation(m)
             /\ m.include_file \notin ExcludedHeaders) =>
            m \in Emitted(m.include_file)

(***************************************************************************)
(* Claims about signature synthesis (checked under SpecSynthesis)          *)
(***************************************************************************)

\* Synthesis of the method fails, or no signature of it gets a base name.
SynthesisFails(m, include_file_base_name) ==
  LET s == to_ffi_signatures(m)
  IN  \/ ~s.ok
      \/ \A k \in 1..Len(s.results) :
           ~c_base_name(s.results[k], include_file_base_name).ok

\* The methods of the header for which synthesis does not fail.
Synthesizable(include_file) ==
  SelectSeq(HeaderMethods(cpp_data, include_file),
            LAMBDA m : ~SynthesisFails(m, IncludeFileBaseName(include_file)))

\* What process_methods returns for the header when the methods for which
\* synthesis fails are absent from the input.
RunWithoutFailures(include_file) ==
  LET methods == Synthesizable(include_file)
      include_file_base_name == IncludeFileBaseName(include_file)
  IN  process_methods(Self, include_file_base_name, methods,
                      ReferenceOrder(GroupKeys(Self, include_file_base_name,
                                               methods)))

\* C12: a method for which to_ffi_signatures or c_base_name fails is left
\* out and the run goes on: every header's output is the output of the same
\* header without the failing methods, entry for entry and name for name,
\* and the run aborts only if it would abort without them as well.
C12_SynthesisFailureRecoverable ==
  /\ \A h \in 1..Len(c_headers) :
       LET r == RunWithoutFailures(c_headers[h].include_file)
       IN  /\ ~r.panicked
           /\ SameEntries(c_headers[h].methods, r.methods)
  /\ pc = "panic" =>
       \E include_file \in ProcessedHeaders \ CompletedHeaders :
         RunWithoutFailures(include_file).panicked

\* C12 witness: a finished run whose header held f(int), f(T) and the
\* conversion operator to T: f(int) is in the output under the base name,
\* unmodified, as if it were the only method.
C12_Witness ==
  /\ pc = "done"
  /\ Len(cpp_data.methods) = 3
  /\ \E i \in 1..3 : ~to_ffi_signatures(cpp_data.methods[i]).ok
  /\ \E i \in 1..3 :
       /\ to_ffi_signatures(cpp_data.methods[i]).ok
       /\ SynthesisFails(cpp_data.methods[i], <<"a">>)
  /\ Len(c_headers) = 1
  /\ Len(c_headers[1].methods) = 1
  /\ c_headers[1].methods[1].c_name = <<"a", "_", "G", "_", "f">>

ArgumentTypes(m) ==
  [k \in 1..Len(m.arguments) |-> m.arguments[k].argument_type]

\* h(int a, int b = 0)
HasOneTrailingDefault(m) ==
  /\ m.name = <<"h">>
  /\ ArgumentTypes(m) = <<"int", "int">>
  /\ ~m.arguments[1].has_default_value
  /\ m.arguments[2].has_default_value

\* The entries of the output of the header whose method is this candidate.
EntriesOf(include_file, candidate) ==
  {e \in UNION {Range(c_headers[h].methods) :
                  h \in {k \in 1..Len(c_headers) :
                           c_headers[k].include_file = include_file}} :
     e.cpp_method = candidate}

\* C16: h(int a, int b = 0) yields exactly two candidates, h(int, int) and
\* h(int); the trimmed one records the untrimmed argument list; in a
\* finished run each of the two is in the output of the header under its
\* own name, the base name followed by the caption of its own arguments.
C16_DefaultArgumentExpansion ==
  \A i \in 1..Len(cpp_data.methods) :
    LET m == cpp_data.methods[i]
        s == to_ffi_signatures(m)
        full == m
        trimmed == [m EXCEPT !.arguments = SubSeq(m.arguments, 1, 1),
                             !.arguments_before_omitting = Some(m.arguments)]
        base == <<"a", "_", "G", "_", "h", "_">>
    IN  HasOneTrailingDefault(m) =>
          /\ s.ok
          /\ Len(s.results) = 2
          /\ {s.results[k].cpp_method : k \in 1..2} = {full, trimmed}
          /\ pc = "done" =>
               /\ \E e \in EntriesOf(m.include_file, full) :
                    e.c_name = base \o <<"int", "_", "int">>
               /\ \E e \in EntriesOf(m.include_file, trimmed) :
                    e.c_name = base \o <<"int">>

\* C16 witness: a finished run on h(int, int = 0) and h(double): three
\* entries of the group h.
C16_Witness ==
  /\ pc = "done"
  /\ Len(cpp_data.methods) = 2
  /\ \E i \in 1..2 : HasOneTrailingDefault(cpp_data.methods[i])
  /\ \E i \in 1..2 : ArgumentTypes(cpp_data.methods[i]) = <<"double">>
                        /\ cpp_data.methods[i].name = <<"h">>
  /\ Len(c_headers) = 1
  /\ Len(c_headers[1].methods) = 3

(***************************************************************************)
(* Claims about base specifiers (checked under SpecBases)                  *)
(***************************************************************************)

\* The names of the types that the data or one of its dependencies declares.
RECURSIVE KnownTypes(_)
KnownTypes(data) ==
  TypeNames(data)
    \cup UNION {KnownTypes(data.dependencies[d]) :
                  d \in 1..Len(data.dependencies)}

\* The base specifier does not name a class: it is no class type at all, or
\* it names a type that is not a class.
NonClassBase(b) ==
  \/ b.base.tag # "Class"
  \/ /\ FindType(cpp_data, b.base.name) # 0
     /\ cpp_data.types[FindType(cpp_data, b.base.name)].kind # "Class"

\* The base specifier names a class that no CppData declares.
MissingBase(b) ==
  /\ b.base.tag = "Class"
  /\ b.base.name \notin KnownTypes(cpp_data)

\* C13: when D has a base specifier that is no class type, the resolver
\* aborts: generate_all does not get past the abstract classes, and
\* get_all_methods(D) does not return.
C13_NonClassBaseFatal ==
  (\E i \in 1..Len(BasesOf(<<"D">>)) : NonClassBase(BasesOf(<<"D">>)[i])) =>
    /\ pc \notin {"headers", "emit", "done"}
    /\ (IsSome(resolved) /\ Unwrap(resolved).class_name = <<"D">>) =>
         Unwrap(resolved).status = "panic"

\* The data without the base specifiers that name a missing class.
WithoutMissingBases(data) ==
  [data EXCEPT !.types =
     [t \in 1..Len(data.types) |->
        [data.types[t] EXCEPT !.bases =
           SelectSeq(@, LAMBDA b : ~MissingBase(b))]]]

\* A warning about the missing class X is in the log.
WarnedAboutX ==
  \E i \in 1..Len(log) :
    log[i] = LogRecord("warning", "no type info", <<"X">>)

\* C14: a base that names a class found nowhere does not abort the
\* resolver; it is logged and contributes nothing: get_all_methods and the
\* abstract classes are what they are without that base specifier, the
\* other bases and the own methods included.
C14_MissingBaseSkipped ==
  LET reduced == WithoutMissingBases(cpp_data)
      missing == \E i \in 1..Len(BasesOf(<<"D">>)) :
                   MissingBase(BasesOf(<<"D">>)[i])
      abstract == AbstractClasses(reduced, 1,
                                  [classes |-> <<>>, warnings |-> <<>>])
  IN  /\ IsSome(resolved) =>
           LET r == Unwrap(resolved)
               q == get_all_methods(reduced, r.class_name, 1)
           IN  /\ r.status = q.status
               /\ r.methods = q.methods
               /\ (missing /\ r.class_name = <<"D">> /\ r.status = "ok")
                    => WarnedAboutX
      /\ pc \in {"headers", "emit", "done"} =>
           /\ abstract.status = "ok"
           /\ abstract_classes = abstract.classes
           /\ missing => WarnedAboutX
      /\ pc = "panic" => abstract.status = "panic"

\* C14 witness: get_all_methods(D) returned A's f() for D with the bases X
\* (missing) and A.
C14_Witness ==
  /\ BasesOf(<<"D">>) = <<ClassBase(<<"X">>), ClassBase(<<"A">>)>>
  /\ IsSome(resolved)
  /\ Unwrap(resolved).class_name = <<"D">>
  /\ Unwrap(resolved).status = "ok"
  /\ \E i \in 1..Len(Unwrap(resolved).methods) :
       class_name(Unwrap(resolved).methods[i]) = Some(<<"A">>)
  /\ WarnedAboutX

\* C15: when D derives from the class P of the dependency, whose f() is
\* pure virtual, and declares no f() itself, P's f() is among the methods
\* of D and D is reported abstract.
C15_DependenciesResolved ==
  (/\ \E i \in 1..Len(BasesOf(<<"D">>)) :
        BasesOf(<<"D">>)[i] = ClassBase(<<"P">>)
   /\ Declared(<<"D">>, <<"f">>, <<>>) = {}) =>
    /\ pc \in {"headers", "emit", "done"} =>
         <<"D">> \in Range(abstract_classes)
    /\ (/\ IsSome(resolved)
        /\ Unwrap(resolved).class_name = <<"D">>
        /\ Unwrap(resolved).status = "ok") =>
         \E i \in 1..Len(Unwrap(resolved).methods) :
           class_name(Unwrap(resolved).methods[i]) = Some(<<"P">>)

\* No class of the input declares the same name and argument types twice.
DeclarationsUnique ==
  \A i, j \in 1..Len(cpp_data.methods) :
    (/\ i # j
     /\ class_name(cpp_data.methods[i]) = class_name(cpp_data.methods[j])
     /\ cpp_data.methods[i].name = cpp_data.methods[j].name)
      => ~argument_types_equal(cpp_data.methods[i], cpp_data.methods[j])

\* C20: the method list that get_all_methods returns holds no two methods
\* with the same name and the same argument types.
C20_NoDuplicateSignatures ==
  (/\ DeclarationsUnique
   /\ IsSome(resolved)
   /\ Unwrap(resolved).status = "ok") =>
    LET methods == Unwrap(resolved).methods
    IN  \A i, j \in 1..Len(methods) :
          (i # j /\ methods[i].name = methods[j].name)
            => ~argument_types_equal(methods[i], methods[j])

(***************************************************************************)
(* Claims about abstract classes and the resolver's recursion              *)
(***************************************************************************)

\* The classes that the base specifiers of the class name; none for a name
\* that types does not hold as a class.
ClassBaseNames(class) ==
  LET t == FindType(cpp_data, class)
  IN  IF t = 0 \/ cpp_data.types[t].kind # "Class"
        THEN {}
        ELSE {cpp_data.types[t].bases[i].base.name :
                i \in {k \in 1..Len(cpp_data.types[t].bases) :
                         cpp_data.types[t].bases[k].base.tag = "Class"}}

\* The paths with up to n more steps, each from a class to one of its bases.
RECURSIVE BasePathsUpTo(_, _)
BasePathsUpTo(paths, n) ==
  LET longer == paths \cup
                  UNION {{Append(p, b) : b \in ClassBaseNames(p[Len(p)])} :
                           p \in paths}
  IN  IF n = 0 \/ longer = paths
        THEN paths
        ELSE BasePathsUpTo(longer, n - 1)

\* The base chains that start at the class: the class alone, the class and
\* a base, the class, a base and a base of that base, and so on.  A chain
\* that holds a class twice exists exactly when the class reaches a cycle.
BasePaths(class) == BasePathsUpTo({<<class>>}, Len(cpp_data.types))

\* The class or an ancestor declares a pure virtual method, and no class
\* below that one on some base chain, the class itself included, declares a
\* method with the same name and argument types.
UnshadowedPureVirtual(class) ==
  \E p \in BasePaths(class) :
    \E i \in 1..Len(cpp_data.methods) :
      LET m == cpp_data.methods[i]
      IN  /\ class_name(m) = Some(p[Len(p)])
          /\ Unwrap(m.class_membership).is_pure_virtual
          /\ \A k \in 1..(Len(p) - 1) :
               Declared(p[k], m.name, ArgumentTypes(m)) = {}

ReachesCycle(class) ==
  \E p \in BasePaths(class) :
    \E i, j \in 1..Len(p) : i < j /\ p[i] = p[j]

\* No class of the library is its own ancestor.
AcyclicBases ==
  \A t \in 1..Len(cpp_data.types) : ~ReachesCycle(cpp_data.types[t].name)

\* The number of classes on the longest base chain from the class.
LongestChain(class) ==
  CHOOSE n \in {Len(p) : p \in BasePaths(class)} :
    \A p \in BasePaths(class) : Len(p) <= n

\* The first depth from which LongestChain(class) nested calls fit the
\* stack.
DepthLeaving(class) == MaxDepth + 1 - LongestChain(class)

\* C22: when no class is its own ancestor, get_pure_virtual_methods and
\* get_all_methods return for every class, and as many nested calls as the
\* longest base chain from the class has classes are enough for them; when
\* a class reaches itself through its bases, neither returns, whatever the
\* depth the stack allows.
C22_TerminatesIffAcyclic ==
  /\ AcyclicBases =>
       /\ pc # "overflow"
       /\ IsSome(resolved) => Unwrap(resolved).status = "ok"
       /\ \A t \in 1..Len(cpp_data.types) :
            LET name == cpp_data.types[t].name
            IN  /\ get_pure_virtual_methods(cpp_data, name,
                                            DepthLeaving(name)).status = "ok"
                /\ get_all_methods(cpp_data, name,
                                   DepthLeaving(name)).status = "ok"
  /\ (IsSome(resolved) /\ ReachesCycle(Unwrap(resolved).class_name)) =>
       Unwrap(resolved).status = "overflow"
  /\ (~AcyclicBases /\ pc \notin {"new", "resolved"}) => pc = "overflow"

\* C22 witness: C derives from B, B from A, A has no base;
\* get_all_methods(C) returned A's f(), and one nested call fewer than the
\* three of the chain would not have been enough.
C22_Witness ==
  /\ BasesOf(<<"A">>) = <<>>
  /\ BasesOf(<<"B">>) = <<ClassBase(<<"A">>)>>
  /\ BasesOf(<<"C">>) = <<ClassBase(<<"B">>)>>
  /\ IsSome(resolved)
  /\ Unwrap(resolved).class_name = <<"C">>
  /\ Unwrap(resolved).status = "ok"
  /\ Len(Unwrap(resolved).methods) = 1
  /\ LongestChain(<<"C">>) = 3
  /\ get_all_methods(cpp_data, <<"C">>,
                     DepthLeaving(<<"C">>) + 1).status = "overflow"
  /\ get_pure_virtual_methods(cpp_data, <<"C">>,
                              DepthLeaving(<<"C">>) + 1).status = "overflow"

(***************************************************************************)
(* Claims about CompleteType (checked under SpecConversion)                *)
(***************************************************************************)

Matching(its, target) ==
  {i \in 1..Len(its) : ConditionEval(its[i].condition, target)}

\* The concatenation of one list field over the matching items, in the
\* order the items were added.
RECURSIVE ConcatField(_, _, _)
ConcatField(its, target, field) ==
  IF its = <<>>
    THEN <<>>
    ELSE (IF ConditionEval(Head(its).condition, target)
            THEN Head(its).data[field]
            ELSE <<>>) \o ConcatField(Tail(its), target, field)

Conflict(its, target) ==
  \E i, j \in Matching(its, target) :
    /\ IsSome(its[i].data.library_type)
    /\ IsSome(its[j].data.library_type)
    /\ its[i].data.library_type # its[j].data.library_type

\* C9: a successful eval(target) returns linked_libs, linked_frameworks and
\* compiler_flags each equal to the concatenation, in the order of addition,
\* of that field over exactly the items whose condition is true on target;
\* nothing is deduplicated or reordered.
C9_EvalConcatenates ==
  (eval_out.called /\ eval_out.ok) =>
    \A field \in {"linked_libs", "linked_frameworks", "compiler_flags"} :
      eval_out.data[field] = ConcatField(items, eval_out.target, field)

\* C9 witness: a successful eval over two matching items and the result
\* keeps their libraries in the order of addition, unsorted.
C9_Witness ==
  /\ eval_out.called /\ eval_out.ok
  /\ Len(items) = 2
  /\ Matching(items, eval_out.target) = {1, 2}
  /\ items[1].data.linked_libs = <<"b">>
  /\ items[2].data.linked_libs = <<"a">>
  /\ eval_out.data.linked_libs = <<"b", "a">>

\* C10: eval(target) returns an error if and only if two items whose
\* conditions are true on target set different library types; otherwise it
\* succeeds with the library type the matching items set (None if none of
\* them sets one).
C10_EvalLibraryType ==
  eval_out.called =>
    /\ (~eval_out.ok) <=> Conflict(items, eval_out.target)
    /\ eval_out.ok =>
         /\ \A i \in Matching(items, eval_out.target) :
              IsSome(items[i].data.library_type) =>
                eval_out.data.library_type = items[i].data.library_type
         /\ IsSome(eval_out.data.library_type) =>
              \E i \in Matching(items, eval_out.target) :
                items[i].data.library_type = eval_out.data.library_type

\* C10 witness: an eval that failed on two matching items of different
\* library types.
C10_Witness ==
  /\ eval_out.called
  /\ ~eval_out.ok
  /\ Len(items) = 2
  /\ items[1].data.library_type = Some("Shared")
  /\ items[2].data.library_type = Some("Static")

====
